---- MODULE Spec2Model ----
(***************************************************************************)
(* Model of the text-rendering pipeline of the study tool: the expression  *)
(* evaluator (lib/mathEvaluator) and the mixed-notation renderer           *)
(* (components/Math.tsx).  Strings are sequences of one-character strings, *)
(* so that the regular expressions and the scanner of the source act on    *)
(* characters exactly as the code does.                                    *)
(***************************************************************************)
EXTENDS Integers, Sequences, FiniteSets, TLC

(***************************************************************************)
(* Characters                                                              *)
(***************************************************************************)
LowerSeq ==
  <<"a","b","c","d","e","f","g","h","i","j","k","l","m",
    "n","o","p","q","r","s","t","u","v","w","x","y","z">>

UpperSeq ==
  <<"A","B","C","D","E","F","G","H","I","J","K","L","M",
    "N","O","P","Q","R","S","T","U","V","W","X","Y","Z">>

DigitSeq == <<"0","1","2","3","4","5","6","7","8","9">>

SeqRange(s) == { s[k] : k \in DOMAIN s }

Lower == SeqRange(LowerSeq)

Upper == SeqRange(UpperSeq)

Digits == SeqRange(DigitSeq)

\* \w of the regular expressions: [A-Za-z0-9_]
IsWordChar(c) == c \in Lower \cup Upper \cup Digits \cup {"_"}

\* \s of the regular expressions (the white space the inputs can hold)
IsSpace(c) == c \in {" ", "\n", "\t"}

\* the value of a decimal digit
DigitVal(c) == (CHOOSE k \in DOMAIN DigitSeq : DigitSeq[k] = c) - 1

\* case folding, as the i flag of a regular expression compares letters
ToUpper(c) ==
  IF c \in Lower THEN UpperSeq[CHOOSE k \in DOMAIN LowerSeq : LowerSeq[k] = c]
  ELSE c

UpperStr(s) == [k \in DOMAIN s |-> ToUpper(s[k])]

\* s.substring(a, b) with 0-based a (inclusive) and b (exclusive)
Substring(s, a, b) == SubSeq(s, a + 1, b)

\* whether pat occurs in s at the 1-based position p
MatchAt(s, p, pat) ==
  /\ p + Len(pat) - 1 <= Len(s)
  /\ SubSeq(s, p, p + Len(pat) - 1) = pat

RECURSIVE Flatten(_)
Flatten(ss) == IF ss = <<>> THEN <<>> ELSE Head(ss) \o Flatten(Tail(ss))

\* the end (1-based, inclusive) of the run of word characters starting at p
RECURSIVE WordEnd(_, _)
WordEnd(s, p) ==
  IF p < Len(s) /\ IsWordChar(s[p + 1]) THEN WordEnd(s, p + 1) ELSE p

\* the end of the run of digits starting at p, or p - 1 when s[p] is no digit
RECURSIVE DigitsEnd(_, _)
DigitsEnd(s, p) ==
  IF p <= Len(s) /\ s[p] \in Digits THEN DigitsEnd(s, p + 1) ELSE p - 1

\* s cut into maximal runs of word characters and single other characters:
\* the places where \b holds are exactly the borders of the word runs
RECURSIVE SplitWords(_, _)
SplitWords(s, p) ==
  IF p > Len(s) THEN <<>>
  ELSE IF IsWordChar(s[p])
       THEN <<SubSeq(s, p, WordEnd(s, p))>> \o SplitWords(s, WordEnd(s, p) + 1)
       ELSE <<(<<s[p]>>)>> \o SplitWords(s, p + 1)

\* s.replace(/pat/g, rep) for a literal pattern
RECURSIVE ReplaceAll(_, _, _, _)
ReplaceAll(s, p, pat, rep) ==
  IF p > Len(s) THEN <<>>
  ELSE IF MatchAt(s, p, pat)
       THEN rep \o ReplaceAll(s, p + Len(pat), pat, rep)
       ELSE <<s[p]>> \o ReplaceAll(s, p + 1, pat, rep)

(***************************************************************************)
(* The expression evaluator: the allow-list                                *)
(***************************************************************************)
MATH_CONSTANTS ==
  { <<"P","I">>, <<"E">>, <<"L","N","2">>, <<"L","N","1","0">>,
    <<"L","O","G","2","E">>, <<"L","O","G","1","0","E">>,
    <<"S","Q","R","T","2">>, <<"S","Q","R","T","1","_","2">> }

MATH_FUNCTIONS ==
  { <<"s","q","r","t">>, <<"c","b","r","t">>, <<"a","b","s">>,
    <<"s","i","g","n">>, <<"f","l","o","o","r">>, <<"c","e","i","l">>,
    <<"r","o","u","n","d">>, <<"t","r","u","n","c">>,
    <<"s","i","n">>, <<"c","o","s">>, <<"t","a","n">>,
    <<"a","s","i","n">>, <<"a","c","o","s">>, <<"a","t","a","n">>,
    <<"a","t","a","n","2">>,
    <<"s","i","n","h">>, <<"c","o","s","h">>, <<"t","a","n","h">>,
    <<"a","s","i","n","h">>, <<"a","c","o","s","h">>, <<"a","t","a","n","h">>,
    <<"l","o","g">>, <<"l","o","g","1","0">>, <<"l","o","g","2">>,
    <<"l","n">>, <<"e","x","p">>, <<"e","x","p","m","1">>,
    <<"p","o","w">>, <<"m","i","n">>, <<"m","a","x">>,
    <<"r","a","n","d","o","m">> }

MathDot == <<"M","a","t","h",".">>

(***************************************************************************)
(* prepareExpression                                                       *)
(***************************************************************************)
\* .replace(/\^/g, '**')
ReplaceCaret(s) ==
  Flatten([k \in DOMAIN s |-> IF s[k] = "^" THEN <<"*","*">> ELSE <<s[k]>>])

\* .replace(/\bPI\b/gi, 'Math.PI')
ReplacePI(s) ==
  LET ws == SplitWords(s, 1)
  IN Flatten([k \in DOMAIN ws |->
       IF UpperStr(ws[k]) = <<"P","I">> THEN MathDot \o <<"P","I">> ELSE ws[k]])

\* .replace(/\bE\b/g, 'Math.E')
ReplaceE(s) ==
  LET ws == SplitWords(s, 1)
  IN Flatten([k \in DOMAIN ws |->
       IF ws[k] = <<"E">> THEN MathDot \o <<"E">> ELSE ws[k]])

\* .replace(new RegExp(`\\b(${MATH_FUNCTIONS})\\b`, 'g'), 'Math.$1')
ReplaceFunctions(s) ==
  LET ws == SplitWords(s, 1)
  IN Flatten([k \in DOMAIN ws |->
       IF ws[k] \in MATH_FUNCTIONS THEN MathDot \o ws[k] ELSE ws[k]])

\* .replace(/Math\.ln/g, 'Math.log')
ReplaceLn(s) ==
  ReplaceAll(s, 1, MathDot \o <<"l","n">>, MathDot \o <<"l","o","g">>)

prepareExpression(expr) ==
  ReplaceLn(ReplaceFunctions(ReplaceE(ReplacePI(ReplaceCaret(expr)))))

(***************************************************************************)
(* isSafeExpression                                                        *)
(***************************************************************************)
\* the end of the match of /\d+\.?\d*/ that starts at the digit s[p]
NumberMatchEnd(s, p) ==
  LET d1 == DigitsEnd(s, p)
      d2 == IF d1 < Len(s) /\ s[d1 + 1] = "." THEN d1 + 1 ELSE d1
  IN DigitsEnd(s, d2 + 1)

\* .replace(/\d+\.?\d*/g, '')
RECURSIVE StripNumbers(_, _)
StripNumbers(s, p) ==
  IF p > Len(s) THEN <<>>
  ELSE IF s[p] \in Digits THEN StripNumbers(s, NumberMatchEnd(s, p) + 1)
       ELSE <<s[p]>> \o StripNumbers(s, p + 1)

\* .replace(/Math\.\w+/g, '')
RECURSIVE StripMathMembers(_, _)
StripMathMembers(s, p) ==
  IF p > Len(s) THEN <<>>
  ELSE IF /\ MatchAt(s, p, MathDot)
          /\ p + 5 <= Len(s)
          /\ IsWordChar(s[p + 5])
       THEN StripMathMembers(s, WordEnd(s, p + 5) + 1)
       ELSE <<s[p]>> \o StripMathMembers(s, p + 1)

\* the class [()+\-*/^%,.\s]
IsOperatorChar(c) ==
  c \in {"(", ")", "+", "-", "*", "/", "^", "%", ",", "."} \/ IsSpace(c)

\* .replace(/[()+\-*/^%,.\s]/g, '')
StripOperators(s) == SelectSeq(s, LAMBDA c : ~IsOperatorChar(c))

\* .replace(new RegExp(`\\b(${MATH_FUNCTIONS}|${MATH_CONSTANTS})\\b`, 'gi'), '')
StripNames(s) ==
  LET ws == SplitWords(s, 1)
      names == { UpperStr(n) : n \in MATH_FUNCTIONS \cup MATH_CONSTANTS }
  IN Flatten([k \in DOMAIN ws |->
       IF UpperStr(ws[k]) \in names THEN <<>> ELSE ws[k]])

isSafeExpression(expr) ==
  LET testExpr ==
        StripNames(StripOperators(StripMathMembers(StripNumbers(expr, 1), 1)))
  IN Len(testExpr) = 0

(***************************************************************************)
(* The values of the script engine that runs `new Function(...)`.          *)
(* Numbers are exact: a rational "q", NaN, the two infinities, or a        *)
(* symbolic non-zero finite irrational "irr" with its sign (Math.PI,       *)
(* Math.sqrt(2), ...).  The other kinds are the non-numbers an allowed      *)
(* expression can produce.  "unmodelled" marks a value this fragment does   *)
(* not compute; NoUnmodelled checks that no run meets one.                 *)
(***************************************************************************)
Abs(x) == IF x < 0 THEN -x ELSE x

RECURSIVE Gcd(_, _)
Gcd(a, b) == IF b = 0 THEN a ELSE Gcd(b, a % b)

Q(n, d) ==
  LET g == Gcd(Abs(n), Abs(d))
      sg == IF d < 0 THEN -1 ELSE 1
  IN [k |-> "q", n |-> sg * (n \div g), d |-> Abs(d) \div g]

QInt(n) == [k |-> "q", n |-> n, d |-> 1]

NaN == [k |-> "nan"]

PInf == [k |-> "pinf"]

NInf == [k |-> "ninf"]

\* the number -0, which only formatNumber is given
NegZero == [k |-> "nz"]

Undef == [k |-> "undef"]

MathObj == [k |-> "math"]

Str == [k |-> "str"]

UM == [k |-> "unmodelled"]

Fn(name) == [k |-> "fn", name |-> name]

Irr(s, t) == [k |-> "irr", s |-> s, t |-> t]

\* a finite number too large for the integers of the model, with its sign
Big(s) == [k |-> "big", s |-> s]

InfOf(sign) == IF sign < 0 THEN NInf ELSE PInf

\* the sign of a number other than NaN
Sign(v) ==
  CASE v.k = "q" -> (IF v.n > 0 THEN 1 ELSE IF v.n < 0 THEN -1 ELSE 0)
    [] v.k = "pinf" -> 1
    [] v.k = "ninf" -> -1
    [] v.k \in {"irr", "big"} -> v.s
    [] OTHER -> 0

IsInf(v) == v.k \in {"pinf", "ninf"}

IsZero(v) == v.k = "q" /\ v.n = 0

\* typeof v === 'number' && isFinite(v)
IsFiniteNumber(v) == v.k \in {"q", "irr", "big"}

\* ToNumber of the engine
ToNumber(v) ==
  IF v.k \in {"q", "nan", "pinf", "ninf", "irr", "big", "unmodelled"} THEN v
  ELSE NaN

NumNeg(a) ==
  CASE a.k = "q" -> Q(-a.n, a.d)
    [] a.k = "pinf" -> NInf
    [] a.k = "ninf" -> PInf
    [] a.k = "irr" -> Irr(-a.s, a.t)
    [] a.k = "big" -> Big(-a.s)
    [] OTHER -> a

NumAdd(a, b) ==
  CASE {a.k, b.k} \cap {"unmodelled", "big"} # {} -> UM
    [] a.k = "nan" \/ b.k = "nan" -> NaN
    [] IsInf(a) /\ IsInf(b) -> (IF a = b THEN a ELSE NaN)
    [] IsInf(a) -> a
    [] IsInf(b) -> b
    [] a.k = "q" /\ b.k = "q" -> Q(a.n * b.d + b.n * a.d, a.d * b.d)
    [] IsZero(a) -> b
    [] IsZero(b) -> a
    [] Sign(a) = Sign(b) -> Irr(Sign(a), <<"add", a, b>>)
    [] OTHER -> UM

NumSub(a, b) == NumAdd(a, NumNeg(b))

NumMul(a, b) ==
  CASE {a.k, b.k} \cap {"unmodelled", "big"} # {} -> UM
    [] a.k = "nan" \/ b.k = "nan" -> NaN
    [] IsInf(a) \/ IsInf(b) ->
         (IF IsZero(a) \/ IsZero(b) THEN NaN ELSE InfOf(Sign(a) * Sign(b)))
    [] a.k = "q" /\ b.k = "q" -> Q(a.n * b.n, a.d * b.d)
    [] IsZero(a) \/ IsZero(b) -> QInt(0)
    [] OTHER -> Irr(Sign(a) * Sign(b), <<"mul", a, b>>)

NumDiv(a, b) ==
  CASE {a.k, b.k} \cap {"unmodelled", "big"} # {} -> UM
    [] a.k = "nan" \/ b.k = "nan" -> NaN
    [] IsInf(a) /\ IsInf(b) -> NaN
    [] IsInf(a) -> InfOf(Sign(a) * (IF Sign(b) < 0 THEN -1 ELSE 1))
    [] IsInf(b) -> QInt(0)
    [] IsZero(b) -> (IF IsZero(a) THEN NaN ELSE InfOf(Sign(a)))
    [] a.k = "q" /\ b.k = "q" -> Q(a.n * b.d, a.d * b.n)
    [] IsZero(a) -> QInt(0)
    [] OTHER -> Irr(Sign(a) * Sign(b), <<"div", a, b>>)

\* the remainder, with the sign of the dividend
NumRem(a, b) ==
  CASE {a.k, b.k} \cap {"unmodelled", "big"} # {} -> UM
    [] a.k = "nan" \/ b.k = "nan" -> NaN
    [] IsInf(a) \/ IsZero(b) -> NaN
    [] IsInf(b) -> a
    [] a.k = "q" /\ b.k = "q" ->
         LET num == Abs(a.n) * b.d
             den == a.d * Abs(b.n)
             t == num \div den
         IN Q(Sign(a) * (num - t * den), a.d * b.d)
    [] OTHER -> UM

RECURSIVE IntPow(_, _)
IntPow(b, e) == IF e = 0 THEN 1 ELSE b * IntPow(b, e - 1)

IsSquare(n) == \E r \in 0..(IF n < 1000 THEN n ELSE 1000) : r * r = n

IntSqrt(n) == CHOOSE r \in 0..(IF n < 1000 THEN n ELSE 1000) : r * r = n

NumSqrt(a) ==
  CASE a.k \in {"unmodelled", "big"} -> UM
    [] a.k = "nan" \/ a.k = "ninf" -> NaN
    [] a.k = "pinf" -> PInf
    [] Sign(a) < 0 -> NaN
    [] a.k = "q" /\ a.n <= 1000000 /\ a.d <= 1000000 ->
         (IF IsSquare(a.n) /\ IsSquare(a.d)
          THEN Q(IntSqrt(a.n), IntSqrt(a.d))
          ELSE Irr(1, <<"sqrt", a>>))
    [] a.k = "irr" -> Irr(1, <<"sqrt", a>>)
    [] OTHER -> UM

\* a ** b and Math.pow(a, b)
NumPow(a, b) ==
  CASE {a.k, b.k} \cap {"unmodelled", "big"} # {} -> UM
    [] b.k = "nan" -> NaN
    [] IsZero(b) -> QInt(1)
    [] a.k = "nan" -> NaN
    [] a.k = "q" /\ b.k = "q" /\ b.d = 1 ->
         (CASE a.n = 0 -> (IF b.n > 0 THEN QInt(0) ELSE PInf)
            [] a = QInt(1) -> QInt(1)
            [] a = QInt(-1) -> (IF b.n % 2 = 0 THEN QInt(1) ELSE QInt(-1))
            [] \/ Abs(a.n) <= 2 /\ a.d <= 2 /\ Abs(b.n) <= 30
               \/ Abs(a.n) <= 9 /\ a.d <= 9 /\ Abs(b.n) <= 9
               \/ Abs(a.n) <= 99 /\ a.d <= 99 /\ Abs(b.n) <= 4
               \/ Abs(a.n) <= 999 /\ a.d <= 999 /\ Abs(b.n) <= 3 ->
                 (IF b.n > 0 THEN Q(IntPow(a.n, b.n), IntPow(a.d, b.n))
                  ELSE Q(IntPow(a.d, -b.n), IntPow(a.n, -b.n)))
            \* too large for the integers of the model, yet finite
            [] Abs(a.n) <= 999 /\ a.d = 1 /\ b.n \in 1..99 ->
                 Big(IF a.n < 0 /\ b.n % 2 = 1 THEN -1 ELSE 1)
            [] OTHER -> UM)
    [] a.k \in {"q", "irr"} /\ Sign(a) >= 0 /\ b = Q(1, 2) -> NumSqrt(a)
    [] a.k = "irr" /\ b.k = "q" /\ b.d = 1 /\ b.n \in 1..3 ->
         Irr(IF b.n = 2 THEN 1 ELSE a.s, <<"pow", a, b>>)
    [] OTHER -> UM

\* a < b for two numbers that are neither NaN nor symbolic
NumLess(a, b) ==
  CASE a.k = "ninf" -> b.k # "ninf"
    [] a.k = "pinf" -> FALSE
    [] b.k = "pinf" -> TRUE
    [] b.k = "ninf" -> FALSE
    [] OTHER -> a.n * b.d < b.n * a.d

(***************************************************************************)
(* The script engine: tokens of the source text `return (<prepared>)`.      *)
(* A token is a number, an identifier, a punctuator or an error ("syntax":  *)
(* the text is no script; "unmodelled": a form outside this fragment, such  *)
(* as a comment, a hexadecimal literal or a spread).  nl says that a line   *)
(* terminator precedes the token.                                          *)
(***************************************************************************)
NumTok(v) == [t |-> "num", v |-> v]

IdTok(name) == [t |-> "id", name |-> name]

PTok(sym) == [t |-> "p", s |-> sym]

ErrTok(kind) == [t |-> "err", kind |-> kind]

IsIdStart(c) == c \in Lower \cup Upper \cup {"_", "$"}

CharAt(s, p) == IF p >= 1 /\ p <= Len(s) THEN s[p] ELSE ""

\* the number written by the digits ds in the given base
RECURSIVE DigitsValue(_, _)
DigitsValue(ds, base) ==
  IF ds = <<>> THEN 0
  ELSE DigitsValue(SubSeq(ds, 1, Len(ds) - 1), base) * base
       + DigitVal(ds[Len(ds)])

\* the integer part of the numeric literal that starts at p
ScanInteger(s, p) ==
  [p |-> p, intEnd |-> DigitsEnd(s, p),
   \* a leading zero followed by digits below 8 only: a legacy octal literal
   leading0 |-> DigitsEnd(s, p) > p /\ s[p] = "0",
   octal |-> /\ DigitsEnd(s, p) > p /\ s[p] = "0"
             /\ \A k \in p..DigitsEnd(s, p) : DigitVal(s[k]) < 8]

\* its fraction
ScanFraction(s, n) ==
  n @@ [fracEnd |-> IF ~n.octal /\ CharAt(s, n.intEnd + 1) = "."
                    THEN DigitsEnd(s, n.intEnd + 2) ELSE n.intEnd]

\* its exponent
ScanExponent(s, n) ==
  LET hasE == ~n.octal /\ CharAt(s, n.fracEnd + 1) \in {"e", "E"}
      hasSign == hasE /\ CharAt(s, n.fracEnd + 2) \in {"+", "-"}
      expFrom == IF hasSign THEN n.fracEnd + 3 ELSE n.fracEnd + 2
      hasExp == hasE /\ CharAt(s, expFrom) \in Digits
  IN n @@ [negExp |-> hasSign /\ CharAt(s, n.fracEnd + 2) = "-",
           expFrom |-> expFrom,
           hasExp |-> hasExp,
           e |-> IF hasExp THEN DigitsEnd(s, expFrom) ELSE n.fracEnd]

\* the value of the literal whose parts are n
NumberValue(s, n) ==
  LET intDs == SubSeq(s, n.p, n.intEnd)
      fracDs == SubSeq(s, n.intEnd + 2, n.fracEnd)
      expDs == IF n.hasExp THEN SubSeq(s, n.expFrom, n.e) ELSE <<>>
      expAbs == IF Len(expDs) > 3 THEN 999 ELSE DigitsValue(expDs, 10)
      ex == IF n.negExp THEN -expAbs ELSE expAbs
      manDs == intDs \o fracDs
  IN CASE n.octal ->
            (IF Len(intDs) <= 9 THEN QInt(DigitsValue(intDs, 8)) ELSE UM)
       [] \A k \in DOMAIN manDs : manDs[k] = "0" -> QInt(0)
       [] Len(manDs) > 7 \/ Len(expDs) > 3 -> UM
       [] ex >= 316 -> PInf
       [] ex <= -340 -> QInt(0)
       [] Len(manDs) <= 4 /\ Abs(ex) <= 4 ->
            (IF ex >= 0
             THEN Q(DigitsValue(manDs, 10) * IntPow(10, ex),
                    IntPow(10, Len(fracDs)))
             ELSE Q(DigitsValue(manDs, 10), IntPow(10, Len(fracDs) - ex)))
       [] OTHER -> UM

ValueToken(v) ==
  IF v.k = "unmodelled" THEN ErrTok("unmodelled") ELSE NumTok(v)

\* the token of the literal whose parts are n, nxt the character after it
NumberToken(s, n, nxt) ==
  CASE /\ nxt \in {"x", "X", "b", "B", "o", "O"}
       /\ n.intEnd = n.p /\ s[n.p] = "0" /\ n.fracEnd = n.intEnd ->
         ErrTok("unmodelled")
    [] nxt = "n" /\ n.fracEnd = n.intEnd /\ ~n.hasExp /\ ~n.leading0 ->
         ErrTok("unmodelled")
    [] IsIdStart(nxt) \/ nxt \in Digits -> ErrTok("syntax")
    [] OTHER -> ValueToken(NumberValue(s, n))

NumberEnd(s, n) == [e |-> n.e, tok |-> NumberToken(s, n, CharAt(s, n.e + 1))]

\* the numeric literal that starts at p: [e |-> its last position, tok |-> ...]
ScanNumber(s, p) ==
  NumberEnd(s, ScanExponent(s, ScanFraction(s, ScanInteger(s, p))))

WithNl(tok, nl) == [x \in (DOMAIN tok) \cup {"nl"} |-> IF x = "nl" THEN nl ELSE tok[x]]

RECURSIVE Tokenize(_, _, _)

\* the tokens from a numeric literal n on
AfterNumber(s, n, nl) ==
  IF n.tok.t = "err" THEN <<WithNl(n.tok, nl)>>
  ELSE <<WithNl(n.tok, nl)>> \o Tokenize(s, n.e + 1, FALSE)

\* the tokens from an identifier that ends at e on
AfterWord(s, p, e, nl) ==
  <<WithNl(IdTok(SubSeq(s, p, e)), nl)>> \o Tokenize(s, e + 1, FALSE)

\* the punctuator written with the characters cs
SymbolOf(cs) ==
  CASE cs = <<"*", "*">> -> "**"
    [] cs = <<"+", "+">> -> "++"
    [] cs = <<"-", "-">> -> "--"
    [] OTHER -> cs[1]

\* the tokens from the punctuator written cs on
AfterPunctuator(s, p, cs, nl) ==
  <<WithNl(PTok(SymbolOf(cs)), nl)>> \o Tokenize(s, p + Len(cs), FALSE)

\* the punctuator at p, as a sequence of characters, or <<>>
PunctuatorAt(s, p) ==
  LET c == s[p]
      c2 == CharAt(s, p + 1)
  IN CASE c \in {"*", "+", "-"} /\ c2 = c -> <<c, c>>
       [] c = "/" /\ c2 \in {"/", "*"} -> <<>>
       [] c = "." /\ c2 = "." /\ CharAt(s, p + 2) = "." -> <<>>
       [] c \in {"*", "+", "-", "/", ".", "(", ")", ",", "%"} -> <<c>>
       [] OTHER -> <<>>

Tokenize(s, p, nl) ==
  IF p > Len(s) THEN <<>>
  ELSE CASE IsSpace(s[p]) -> Tokenize(s, p + 1, nl \/ s[p] = "\n")
         [] s[p] \in Digits \/ (s[p] = "." /\ CharAt(s, p + 1) \in Digits) ->
              AfterNumber(s, ScanNumber(s, p), nl)
         [] s[p] \in Lower \cup Upper \cup {"_"} ->
              AfterWord(s, p, WordEnd(s, p), nl)
         [] PunctuatorAt(s, p) # <<>> ->
              AfterPunctuator(s, p, PunctuatorAt(s, p), nl)
         [] OTHER -> <<WithNl(ErrTok("unmodelled"), nl)>>

(***************************************************************************)
(* The script engine: the expression grammar, as far as the characters an  *)
(* allowed expression may hold can reach it.  A parse result is            *)
(* [r, a, p, u]: r is "ok", "syntax" or "unmodelled"; a the syntax tree;   *)
(* p the next token; u says the tree is a unary + or -, which may not be   *)
(* the left operand of **.                                                 *)
(***************************************************************************)
ReservedWords ==
  { <<"i","n">>, <<"d","o">>, <<"i","f">>, <<"n","e","w">>, <<"v","a","r">>,
    <<"l","e","t">>, <<"f","o","r">>, <<"t","r","y">>, <<"t","h","i","s">>,
    <<"v","o","i","d">>, <<"n","u","l","l">>, <<"t","r","u","e">>,
    <<"f","a","l","s","e">>, <<"e","l","s","e">>, <<"c","a","s","e">>,
    <<"w","i","t","h">>, <<"e","n","u","m">>, <<"t","y","p","e","o","f">>,
    <<"d","e","l","e","t","e">>, <<"r","e","t","u","r","n">>,
    <<"w","h","i","l","e">>, <<"c","l","a","s","s">>, <<"c","o","n","s","t">>,
    <<"y","i","e","l","d">>, <<"a","w","a","i","t">>, <<"a","s","y","n","c">>,
    <<"s","u","p","e","r">>, <<"t","h","r","o","w">>, <<"b","r","e","a","k">>,
    <<"i","n","s","t","a","n","c","e","o","f">>,
    <<"f","u","n","c","t","i","o","n">> }

EofTok == [t |-> "eof", nl |-> FALSE]

Tok(toks, p) == IF p <= Len(toks) THEN toks[p] ELSE EofTok

IsP(tok, sym) == tok.t = "p" /\ tok.s = sym

Fail(kind) == [r |-> kind, a |-> <<>>, p |-> 0, u |-> FALSE]

Ok(ast, p, u) == [r |-> "ok", a |-> ast, p |-> p, u |-> u]

\* a token the grammar does not allow at its place
Unexpected(tok) ==
  CASE tok.t = "err" -> Fail(tok.kind)
    [] tok.t = "id" /\ tok.name \in ReservedWords -> Fail("unmodelled")
    [] OTHER -> Fail("syntax")

\* ++ and -- need a simple assignment target
UpdateOf(op, prefix, e, p) ==
  CASE e.u -> Fail("syntax")
    [] e.a.n \in {"id", "member"} ->
         Ok([n |-> "upd", op |-> op, prefix |-> prefix, e |-> e.a], p, FALSE)
    [] e.a.n = "call" -> Fail("unmodelled")
    [] OTHER -> Fail("syntax")

RECURSIVE ParsePrimary(_, _), ParseLHSTail(_, _, _), ParseArgs(_, _, _),
          ParseUpdate(_, _), ParseUnary(_, _), ParseExpo(_, _),
          ParseMul(_, _, _, _), ParseAdd(_, _, _, _),
          ParseAssign(_, _), ParseComma(_, _, _, _), ParseExpression(_, _)

\* after the expression e that follows a "(": the ")"
CloseParen(toks, e) ==
  IF e.r # "ok" THEN e
  ELSE IF IsP(Tok(toks, e.p), ")") THEN Ok(e.a, e.p + 1, FALSE)
  ELSE Unexpected(Tok(toks, e.p))

PrimaryOf(toks, tok, p) ==
  CASE tok.t = "num" -> Ok([n |-> "num", v |-> tok.v], p + 1, FALSE)
    [] tok.t = "id" ->
         (IF tok.name \in ReservedWords THEN Fail("unmodelled")
          ELSE Ok([n |-> "id", name |-> tok.name], p + 1, FALSE))
    [] IsP(tok, "(") -> CloseParen(toks, ParseExpression(toks, p + 1))
    \* a / where an operand is expected opens a regular-expression literal
    [] IsP(tok, "/") -> Fail("unmodelled")
    [] OTHER -> Unexpected(tok)

ParsePrimary(toks, p) == PrimaryOf(toks, Tok(toks, p), p)

\* base.name, nm the token after the "."
MemberOf(toks, base, nm, p) ==
  IF nm.t = "id"
  THEN ParseLHSTail(toks, [n |-> "member", o |-> base, name |-> nm.name], p)
  ELSE Unexpected(nm)

\* base(args)
CallOf(toks, base, args) ==
  IF args.r # "ok" THEN args
  ELSE ParseLHSTail(toks, [n |-> "call", f |-> base, args |-> args.a], args.p)

ParseLHSTail(toks, base, p) ==
  CASE IsP(Tok(toks, p), ".") -> MemberOf(toks, base, Tok(toks, p + 1), p + 2)
    [] IsP(Tok(toks, p), "(") -> CallOf(toks, base, ParseArgs(toks, p + 1, <<>>))
    [] OTHER -> Ok(base, p, FALSE)

\* after the argument e: a "," and more arguments, or the ")"
NextArg(toks, acc, e) ==
  IF e.r # "ok" THEN e
  ELSE IF IsP(Tok(toks, e.p), ",")
       THEN ParseArgs(toks, e.p + 1, Append(acc, e.a))
  ELSE IF IsP(Tok(toks, e.p), ")") THEN Ok(Append(acc, e.a), e.p + 1, FALSE)
  ELSE Unexpected(Tok(toks, e.p))

\* the arguments after "(" or after a ",", up to and including the ")"
ParseArgs(toks, p, acc) ==
  IF IsP(Tok(toks, p), ")") THEN Ok(acc, p + 1, FALSE)
  ELSE NextArg(toks, acc, ParseAssign(toks, p))

\* ++e and --e
PrefixUpdate(op, e) == IF e.r # "ok" THEN e ELSE UpdateOf(op, TRUE, e, e.p)

\* e++ and e--, when nx, the token after e, is ++ or -- on the same line
PostfixUpdate(e, nx) ==
  IF e.r # "ok" THEN e
  ELSE IF (IsP(nx, "++") \/ IsP(nx, "--")) /\ ~nx.nl
       THEN UpdateOf(nx.s, FALSE, e, e.p + 1)
  ELSE e

\* what follows the primary expression b
LHSOf(toks, b) == IF b.r # "ok" THEN b ELSE ParseLHSTail(toks, b.a, b.p)

NextOf(toks, e) == IF e.r # "ok" THEN EofTok ELSE Tok(toks, e.p)

Postfix(toks, e) == PostfixUpdate(e, NextOf(toks, e))

ParseUpdate(toks, p) ==
  IF IsP(Tok(toks, p), "++") \/ IsP(Tok(toks, p), "--")
  THEN PrefixUpdate(Tok(toks, p).s, ParseUnary(toks, p + 1))
  ELSE Postfix(toks, LHSOf(toks, ParsePrimary(toks, p)))

\* +e and -e
Signed(op, e) ==
  IF e.r # "ok" THEN e
  ELSE Ok([n |-> IF op = "-" THEN "neg" ELSE "pos", e |-> e.a], e.p, TRUE)

ParseUnary(toks, p) ==
  IF IsP(Tok(toks, p), "+") \/ IsP(Tok(toks, p), "-")
  THEN Signed(Tok(toks, p).s, ParseUnary(toks, p + 1))
  ELSE ParseUpdate(toks, p)

\* l ** r
Power(l, r) ==
  IF r.r # "ok" THEN r
  ELSE Ok([n |-> "bin", op |-> "**", l |-> l.a, r |-> r.a], r.p, FALSE)

\* after the operand l: ** and the right operand, which a unary l forbids
ExpoOf(toks, l) ==
  IF l.r # "ok" THEN l
  ELSE IF IsP(Tok(toks, l.p), "**")
       THEN IF l.u THEN Fail("syntax")
            ELSE Power(l, ParseExpo(toks, l.p + 1))
  ELSE l

\* UpdateExpression ** ExponentiationExpression, right-associative
ParseExpo(toks, p) == ExpoOf(toks, ParseUnary(toks, p))

\* left op r, or r alone when there is no left operand yet
Joined(left, op, r) ==
  CASE op = "" -> r.a
    [] op = "," -> [n |-> "comma", l |-> left, r |-> r.a]
    [] OTHER -> [n |-> "bin", op |-> op, l |-> left, r |-> r.a]

\* after the operand r of a multiplicative operator: the next one
MulOf(toks, left, op, r) ==
  IF r.r # "ok" THEN r
  ELSE IF \E sym \in {"*", "/", "%"} : IsP(Tok(toks, r.p), sym)
       THEN ParseMul(toks, Joined(left, op, r), Tok(toks, r.p).s, r.p + 1)
  ELSE Ok(Joined(left, op, r), r.p, FALSE)

\* MultiplicativeExpression, left-associative: the operands from p on
ParseMul(toks, left, op, p) == MulOf(toks, left, op, ParseExpo(toks, p))

AddOf(toks, left, op, r) ==
  IF r.r # "ok" THEN r
  ELSE IF IsP(Tok(toks, r.p), "+") \/ IsP(Tok(toks, r.p), "-")
       THEN ParseAdd(toks, Joined(left, op, r), Tok(toks, r.p).s, r.p + 1)
  ELSE Ok(Joined(left, op, r), r.p, FALSE)

\* AdditiveExpression, left-associative
ParseAdd(toks, left, op, p) == AddOf(toks, left, op, ParseMul(toks, <<>>, "", p))

\* AssignmentExpression: no assignment, conditional, logical, bitwise,
\* relational or shift operator can be written with the allowed characters
ParseAssign(toks, p) == ParseAdd(toks, <<>>, "", p)

CommaOf(toks, left, op, r) ==
  IF r.r # "ok" THEN r
  ELSE IF IsP(Tok(toks, r.p), ",")
       THEN ParseComma(toks, Joined(left, op, r), ",", r.p + 1)
  ELSE Ok(Joined(left, op, r), r.p, FALSE)

ParseComma(toks, left, op, p) == CommaOf(toks, left, op, ParseAssign(toks, p))

ParseExpression(toks, p) == ParseComma(toks, <<>>, "", p)

\* the expression e has to end the tokens
EndOf(toks, e) ==
  IF e.r # "ok" THEN e
  ELSE IF e.p > Len(toks) THEN e
  ELSE IF Tok(toks, e.p).t = "err" THEN Fail(Tok(toks, e.p).kind)
  \* after a line terminator a statement may follow the return statement
  ELSE IF Tok(toks, e.p).nl THEN Fail("unmodelled")
  ELSE Unexpected(Tok(toks, e.p))

ParseTokens(toks) == EndOf(toks, ParseExpression(toks, 1))

\* new Function(`return (${prepared})`): the body is one return statement
ParseBody(prepared) ==
  ParseTokens(<<[t |-> "p", s |-> "(", nl |-> FALSE]>>
              \o Tokenize(prepared, 1, FALSE)
              \o <<[t |-> "p", s |-> ")", nl |-> FALSE]>>)

(***************************************************************************)
(* The script engine: evaluation.  The only global an allowed expression   *)
(* can name is Math.  The state of an evaluation is [ow, ri, um]: ow the   *)
(* writable Math properties that ++ or -- have overwritten (the value      *)
(* written is always NaN), ri the number of Math.random() draws taken, um  *)
(* whether a value outside this fragment was met.                          *)
(***************************************************************************)
MathConstNames ==
  { <<"E">>, <<"P","I">>, <<"L","N","2">>, <<"L","N","1","0">>,
    <<"L","O","G","2","E">>, <<"L","O","G","1","0","E">>,
    <<"S","Q","R","T","2">>, <<"S","Q","R","T","1","_","2">> }

MathFunctionNames ==
  (MATH_FUNCTIONS \ {<<"l","n">>}) \cup
  { <<"h","y","p","o","t">>, <<"l","o","g","1","p">>,
    <<"f","r","o","u","n","d">>, <<"i","m","u","l">>,
    <<"c","l","z","3","2">> }

ObjectProtoNames ==
  { <<"c","o","n","s","t","r","u","c","t","o","r">>,
    <<"t","o","S","t","r","i","n","g">>, <<"v","a","l","u","e","O","f">>,
    <<"h","a","s","O","w","n","P","r","o","p","e","r","t","y">>,
    <<"i","s","P","r","o","t","o","t","y","p","e","O","f">>,
    <<"p","r","o","p","e","r","t","y","I","s","E","n","u","m","e","r","a","b","l","e">>,
    <<"t","o","L","o","c","a","l","e","S","t","r","i","n","g">>,
    <<"_","_","p","r","o","t","o","_","_">>,
    <<"_","_","d","e","f","i","n","e","G","e","t","t","e","r","_","_">>,
    <<"_","_","d","e","f","i","n","e","S","e","t","t","e","r","_","_">>,
    <<"_","_","l","o","o","k","u","p","G","e","t","t","e","r","_","_">>,
    <<"_","_","l","o","o","k","u","p","S","e","t","t","e","r","_","_">> }

BuiltinMemberNames ==
  ObjectProtoNames \cup
  { <<"l","e","n","g","t","h">>, <<"n","a","m","e">>, <<"c","a","l","l">>,
    <<"a","p","p","l","y">>, <<"b","i","n","d">>,
    <<"p","r","o","t","o","t","y","p","e">>,
    <<"a","r","g","u","m","e","n","t","s">>, <<"c","a","l","l","e","r">>,
    <<"t","o","F","i","x","e","d">>,
    <<"t","o","E","x","p","o","n","e","n","t","i","a","l">>,
    <<"t","o","P","r","e","c","i","s","i","o","n">> }

GlobalValueNames ==
  { <<"N","a","N">>, <<"I","n","f","i","n","i","t","y">>,
    <<"u","n","d","e","f","i","n","e","d">> }

\* Math.<name>
MathGet(name, ow) ==
  CASE name \in ow -> NaN
    [] name \in MathConstNames -> Irr(1, name)
    [] name \in MathFunctionNames -> Fn(name)
    [] name \in ObjectProtoNames -> UM
    [] OTHER -> Undef

Normal(v, st) ==
  [c |-> "normal", v |-> v,
   st |-> IF v.k = "unmodelled" THEN [st EXCEPT !.um = TRUE] ELSE st]

Throw(st) == [c |-> "throw", v |-> Undef, st |-> st]

\* <object>.<name>; reading a property of undefined is a TypeError
GetMember(o, name, st) ==
  CASE o.k = "undef" -> Throw(st)
    [] o.k = "math" -> Normal(MathGet(name, st.ow), st)
    [] o.k \in {"str", "unmodelled"} -> Normal(UM, st)
    [] name \in BuiltinMemberNames -> Normal(UM, st)
    [] OTHER -> Normal(Undef, st)

Arg(nums, k) == IF k <= Len(nums) THEN nums[k] ELSE NaN

RECURSIVE FoldMax(_, _, _)
FoldMax(nums, k, best) ==
  IF k > Len(nums) THEN best
  ELSE FoldMax(nums, k + 1, IF NumLess(best, nums[k]) THEN nums[k] ELSE best)

RECURSIVE FoldMin(_, _, _)
FoldMin(nums, k, best) ==
  IF k > Len(nums) THEN best
  ELSE FoldMin(nums, k + 1, IF NumLess(nums[k], best) THEN nums[k] ELSE best)

RECURSIVE SumSquares(_, _)
SumSquares(nums, k) ==
  IF k > Len(nums) THEN QInt(0)
  ELSE NumAdd(NumMul(nums[k], nums[k]), SumSquares(nums, k + 1))

HasKind(nums, kinds) == \E k \in DOMAIN nums : nums[k].k \in kinds

MathMaxMin(nums, isMax) ==
  CASE Len(nums) = 0 -> (IF isMax THEN NInf ELSE PInf)
    [] HasKind(nums, {"unmodelled"}) -> UM
    [] HasKind(nums, {"nan"}) -> NaN
    [] HasKind(nums, {"irr", "big"}) -> (IF Len(nums) = 1 THEN nums[1] ELSE UM)
    [] OTHER -> (IF isMax THEN FoldMax(nums, 1, NInf) ELSE FoldMin(nums, 1, PInf))

MathHypot(nums) ==
  CASE HasKind(nums, {"unmodelled", "big"}) -> UM
    [] HasKind(nums, {"pinf", "ninf"}) -> PInf
    [] HasKind(nums, {"nan"}) -> NaN
    [] OTHER -> NumSqrt(SumSquares(nums, 1))

MathLog(a) ==
  CASE a.k \in {"nan", "ninf"} -> NaN
    [] a.k = "pinf" -> PInf
    [] a.k = "q" ->
         (CASE a.n < 0 -> NaN
            [] a.n = 0 -> NInf
            [] a.n = a.d -> QInt(0)
            [] OTHER -> Irr(IF a.n > a.d THEN 1 ELSE -1, <<"log", a>>))
    [] a = Irr(1, <<"E">>) -> QInt(1)
    [] OTHER -> UM

\* floor, ceil, round, trunc and sign of a number
MathRound(fname, a) ==
  CASE a.k \in {"nan", "pinf", "ninf"} ->
         (IF fname = <<"s","i","g","n">> /\ a.k # "nan"
          THEN QInt(Sign(a)) ELSE a)
    [] a.k = "q" ->
         (CASE fname = <<"f","l","o","o","r">> -> QInt(a.n \div a.d)
            [] fname = <<"c","e","i","l">> -> QInt(-((-a.n) \div a.d))
            [] fname = <<"r","o","u","n","d">> ->
                 QInt((2 * a.n + a.d) \div (2 * a.d))
            [] fname = <<"t","r","u","n","c">> ->
                 QInt(Sign(a) * (Abs(a.n) \div a.d))
            [] OTHER -> QInt(Sign(a)))
    [] a.k \in {"irr", "big"} /\ fname = <<"s","i","g","n">> -> QInt(a.s)
    [] OTHER -> UM

MathAbs(a) ==
  CASE a.k = "q" -> Q(Abs(a.n), a.d)
    [] a.k \in {"pinf", "ninf"} -> PInf
    [] a.k = "irr" -> Irr(1, a.t)
    [] a.k = "big" -> Big(1)
    [] OTHER -> a

\* the call Math.<fname>(args): [v |-> the result, st |-> the state after]
ApplyMath(fname, args, st, rnds) ==
  LET nums == [k \in DOMAIN args |-> ToNumber(args[k])]
      a1 == Arg(nums, 1)
      pure(v) == [v |-> v, st |-> st]
  IN CASE fname = <<"r","a","n","d","o","m">> ->
            [v |-> rnds[(st.ri % Len(rnds)) + 1],
             st |-> [st EXCEPT !.ri = st.ri + 1]]
       [] fname = <<"s","q","r","t">> -> pure(NumSqrt(a1))
       [] fname = <<"a","b","s">> -> pure(MathAbs(a1))
       [] fname = <<"m","a","x">> -> pure(MathMaxMin(nums, TRUE))
       [] fname = <<"m","i","n">> -> pure(MathMaxMin(nums, FALSE))
       [] fname = <<"p","o","w">> -> pure(NumPow(a1, Arg(nums, 2)))
       [] fname = <<"h","y","p","o","t">> -> pure(MathHypot(nums))
       [] fname = <<"l","o","g">> -> pure(MathLog(a1))
       [] fname \in { <<"f","l","o","o","r">>, <<"c","e","i","l">>,
                      <<"r","o","u","n","d">>, <<"t","r","u","n","c">>,
                      <<"s","i","g","n">> } -> pure(MathRound(fname, a1))
       [] OTHER -> pure(UM)

\* the binary operators; + concatenates when an operand is no number
BinaryOp(op, a, b) ==
  LET x == ToNumber(a)
      y == ToNumber(b)
  IN CASE op = "+" ->
            (CASE a.k = "unmodelled" \/ b.k = "unmodelled" -> UM
               [] a.k \in {"fn", "math", "str"} \/ b.k \in {"fn", "math", "str"} -> Str
               [] OTHER -> NumAdd(x, y))
       [] op = "-" -> NumSub(x, y)
       [] op = "*" -> NumMul(x, y)
       [] op = "/" -> NumDiv(x, y)
       [] op = "%" -> NumRem(x, y)
       [] OTHER -> NumPow(x, y)

RECURSIVE Eval(_, _, _), EvalArgs(_, _, _, _, _)

\* the arguments from the k-th: [c, vs, st]
EvalArgs(args, k, st, rnds, acc) ==
  IF k > Len(args) THEN [c |-> "normal", vs |-> acc, st |-> st]
  ELSE LET r == Eval(args[k], st, rnds)
       IN IF r.c = "throw" THEN [c |-> "throw", vs |-> acc, st |-> r.st]
          ELSE EvalArgs(args, k + 1, r.st, rnds, Append(acc, r.v))

Eval(ast, st, rnds) ==
  CASE ast.n = "num" -> Normal(ast.v, st)
    [] ast.n = "id" ->
         (CASE ast.name = <<"M","a","t","h">> -> Normal(MathObj, st)
            [] ast.name \in GlobalValueNames -> Normal(UM, st)
            \* ReferenceError: no other global is defined
            [] OTHER -> Throw(st))
    [] ast.n = "member" ->
         LET o == Eval(ast.o, st, rnds)
         IN IF o.c = "throw" THEN o ELSE GetMember(o.v, ast.name, o.st)
    [] ast.n = "call" ->
         LET f == Eval(ast.f, st, rnds)
             as == IF f.c = "throw" THEN [c |-> "throw", vs |-> <<>>, st |-> f.st]
                   ELSE EvalArgs(ast.args, 1, f.st, rnds, <<>>)
         IN CASE f.c = "throw" -> f
              [] as.c = "throw" -> Throw(as.st)
              [] f.v.k = "unmodelled" -> Normal(UM, as.st)
              \* TypeError: not a function
              [] f.v.k # "fn" -> Throw(as.st)
              [] OTHER ->
                   LET r == ApplyMath(f.v.name, as.vs, as.st, rnds)
                   IN Normal(r.v, r.st)
    [] ast.n \in {"neg", "pos"} ->
         LET e == Eval(ast.e, st, rnds)
         IN IF e.c = "throw" THEN e
            ELSE Normal(IF ast.n = "neg" THEN NumNeg(ToNumber(e.v))
                        ELSE ToNumber(e.v), e.st)
    [] ast.n = "bin" ->
         LET l == Eval(ast.l, st, rnds)
             r == IF l.c = "throw" THEN l ELSE Eval(ast.r, l.st, rnds)
         IN IF r.c = "throw" THEN r
            ELSE Normal(BinaryOp(ast.op, l.v, r.v), r.st)
    [] ast.n = "comma" ->
         LET l == Eval(ast.l, st, rnds)
         IN IF l.c = "throw" THEN l ELSE Eval(ast.r, l.st, rnds)
    [] OTHER -> \* "upd": ++ or -- on an identifier or a member
         LET step == IF ast.op = "++" THEN QInt(1) ELSE QInt(-1)
             t == ast.e
         IN IF t.n = "id"
            THEN (IF t.name = <<"M","a","t","h">> \/ t.name \in GlobalValueNames
                  THEN Normal(UM, st) ELSE Throw(st))
            ELSE LET o == Eval(t.o, st, rnds)
                     old == IF o.c = "throw" THEN o
                            ELSE GetMember(o.v, t.name, o.st)
                 IN CASE old.c = "throw" -> old
                      [] o.v.k = "fn" \/ old.v.k = "unmodelled" -> Normal(UM, old.st)
                      [] OTHER ->
                           LET oldNum == ToNumber(old.v)
                               newNum == NumAdd(oldNum, step)
                               written == o.v.k = "math" /\ t.name \notin MathConstNames
                               st2 == IF written
                                      THEN [old.st EXCEPT !.ow = @ \cup {t.name}]
                                      ELSE old.st
                           IN Normal(IF ast.prefix THEN newNum ELSE oldNum, st2)

\* const fn = new Function(`return (${prepared})`); const result = fn();
\* [c |-> "normal" or "throw", v |-> the result, st |-> the state after]
\* fn(): body is the parsed text, st0 the state before the call
RunBody(body, st0, rnds) ==
  CASE body.r = "syntax" -> Throw(st0)
    [] body.r = "unmodelled" -> Throw([st0 EXCEPT !.um = TRUE])
    [] OTHER -> Eval(body.a, st0, rnds)

\* new Function(`return (${prepared})`)()
RunFunction(prepared, ow, rnds) ==
  RunBody(ParseBody(prepared), [ow |-> ow, ri |-> 0, um |-> FALSE], rnds)

(***************************************************************************)
(* evaluateMathExpression: [threw, value, ow, ri, um]                      *)
(***************************************************************************)
\* what fn() did, kept with the outcome of a call: nothing when the call
\* did not get that far
NoRun == [c |-> "none", v |-> Undef]

Ran(run) == [c |-> run.c, v |-> run.v]

EvalThrow(ow, ri, um, raw) ==
  [threw |-> TRUE, value |-> Undef, ow |-> ow, ri |-> ri, um |-> um,
   raw |-> raw]

\* IsInvalidResult testing for NaN only
IsNaNOnly(v) == v.k = "nan"

\* typeof result !== 'number' || !isFinite(result)
IsInvalidResult(v) == ~IsFiniteNumber(v)

\* the check of what fn() did
CheckResult(run) ==
  IF run.c = "throw" \/ IsInvalidResult(run.v)
  THEN EvalThrow(run.st.ow, run.st.ri, run.st.um, Ran(run))
  ELSE [threw |-> FALSE, value |-> run.v, ow |-> run.st.ow,
        ri |-> run.st.ri, um |-> run.st.um, raw |-> Ran(run)]

EvaluatePrepared(prep, ow, rnds) ==
  IF ~isSafeExpression(prep) THEN EvalThrow(ow, 0, FALSE, NoRun)
  ELSE CheckResult(RunFunction(prep, ow, rnds))

evaluateMathExpression(expr, ow, rnds) ==
  EvaluatePrepared(prepareExpression(expr), ow, rnds)

(***************************************************************************)
(* Numbers as text.  The decimal digits of a rational are produced by long *)
(* division; the binary rounding of the engine's doubles is not modelled,  *)
(* so a non-terminating expansion is cut at 16 significant digits.  The    *)
(* digits of a symbolic number other than Math.PI and Math.E are not       *)
(* computed: one marker stands for them.                                   *)
(***************************************************************************)
RECURSIVE IntDigits(_)
IntDigits(n) ==
  IF n < 10 THEN <<DigitSeq[n + 1]>>
  ELSE Append(IntDigits(n \div 10), DigitSeq[(n % 10) + 1])

\* the first count digits of rem/d after the decimal point (rem < d)
RECURSIVE FracDigits(_, _, _)
FracDigits(rem, d, count) ==
  IF count = 0 \/ rem = 0 THEN <<>>
  ELSE <<DigitSeq[((rem * 10) \div d) + 1]>>
       \o FracDigits((rem * 10) % d, d, count - 1)

\* the number of zeros between the decimal point and the first non-zero
\* digit of rem/d, for 0 < rem < d
RECURSIVE LeadingZeros(_, _)
LeadingZeros(rem, d) ==
  IF rem * 10 >= d THEN 0 ELSE 1 + LeadingZeros(rem * 10, d)

RECURSIVE StripTrailingZeros(_)
StripTrailingZeros(ds) ==
  IF ds # <<>> /\ ds[Len(ds)] = "0"
  THEN StripTrailingZeros(SubSeq(ds, 1, Len(ds) - 1)) ELSE ds

RECURSIVE Zeros(_)
Zeros(n) == IF n <= 0 THEN <<>> ELSE <<"0">> \o Zeros(n - 1)

IrrationalDigits == <<"#irrational">>

LargeDigits == <<"#large">>

\* the rationals whose digits the long division below can produce without
\* leaving the checker's integers
DigitsComputable(v) ==
  v.k = "q" /\ (v.d = 1 \/ (Abs(v.n) <= 200000000 /\ v.d <= 200000000))

\* the significant digits of n/d > 0 from its first non-zero digit, count of
\* them, and the decimal exponent e of the first: n/d = d1.d2d3... * 10^e
SigDigits(n, d, count) ==
  LET ip == n \div d
      ids == IF ip = 0 THEN <<>> ELSE IntDigits(ip)
      rem == n % d
      lz == IF ip = 0 THEN LeadingZeros(rem, d) ELSE 0
      e == IF ip = 0 THEN -(lz + 1) ELSE Len(ids) - 1
      want == IF Len(ids) >= count THEN 0 ELSE count - Len(ids) + lz
      fds == FracDigits(rem, d, want)
      all == ids \o SubSeq(fds \o Zeros(want), lz + 1, want)
  IN [ds |-> SubSeq(all, 1, count), e |-> e]

\* the decimal text of the positive rational whose significant digits are
\* sd, with a minus sign when neg
DecimalString(neg, ds, e) ==
  (IF neg THEN <<"-">> ELSE <<>>) \o
  (CASE \* below 1e-6 the engine writes d.ddde-N
        e < -6 ->
          <<ds[1]>> \o (IF Len(ds) > 1 THEN <<".">> \o Tail(ds) ELSE <<>>)
          \o <<"e", "-">> \o IntDigits(-e)
     [] e < 0 -> <<"0", ".">> \o Zeros(-e - 1) \o ds
     [] OTHER ->
          SubSeq(ds \o Zeros(e + 1 - Len(ds)), 1, e + 1)
          \o (IF Len(ds) > e + 1
              THEN <<".">> \o SubSeq(ds, e + 2, Len(ds)) ELSE <<>>))

FractionString(neg, sd) == DecimalString(neg, StripTrailingZeros(sd.ds), sd.e)

\* String(v) of a number: the text the template literal puts in the title
NumberToString(v) ==
  CASE v.k = "nan" -> <<"N","a","N">>
    [] v.k = "pinf" -> <<"I","n","f","i","n","i","t","y">>
    [] v.k = "ninf" -> <<"-","I","n","f","i","n","i","t","y">>
    [] v.k = "irr" ->
         (CASE v = Irr(1, <<"P","I">>) ->
                 <<"3",".","1","4","1","5","9","2","6","5","3","5","8","9","7","9","3">>
            [] v = Irr(1, <<"E">>) ->
                 <<"2",".","7","1","8","2","8","1","8","2","8","4","5","9","0","4","5">>
            [] OTHER -> IrrationalDigits)
    [] DigitsComputable(v) ->
         (CASE v.n = 0 -> <<"0">>
            [] v.d = 1 ->
                 (IF v.n < 0 THEN <<"-">> ELSE <<>>) \o IntDigits(Abs(v.n))
            [] OTHER -> FractionString(v.n < 0, SigDigits(Abs(v.n), v.d, 16)))
    [] OTHER -> LargeDigits

\* the first count of the count + 1 digits sd, the last one rounding them,
\* halves away from zero: [m |-> the digits as an integer, e |-> the exponent]
Rounded(sd, count) ==
  LET m0 == DigitsValue(SubSeq(sd.ds, 1, count), 10)
      up == DigitVal(sd.ds[count + 1]) >= 5
  IN IF up /\ m0 + 1 = IntPow(10, count)
     THEN [m |-> IntPow(10, count - 1), e |-> sd.e + 1]
     ELSE [m |-> IF up THEN m0 + 1 ELSE m0, e |-> sd.e]

\* RoundSig cutting the digits after the last one instead of rounding
RoundSigDown(n, d, count) ==
  [m |-> DigitsValue(SigDigits(n, d, count).ds, 10),
   e |-> SigDigits(n, d, count).e]

\* n/d > 0 rounded to count significant digits
RoundSig(n, d, count) == Rounded(SigDigits(n, d, count + 1), count)

ExponentialString(neg, ds, e, precision) ==
  (IF neg THEN <<"-">> ELSE <<>>)
  \o <<ds[1]>>
  \o (IF precision > 0 THEN <<".">> \o Tail(ds) ELSE <<>>)
  \o <<"e", IF e < 0 THEN "-" ELSE "+">> \o IntDigits(Abs(e))

ExponentialOf(neg, r, precision) ==
  ExponentialString(neg, IntDigits(r.m), r.e, precision)

\* value.toExponential(precision)
ToExponential(v, precision) ==
  IF ~DigitsComputable(v)
  THEN (IF v.k = "irr" THEN IrrationalDigits ELSE LargeDigits)
  ELSE IF v.n = 0
       THEN <<"0">> \o (IF precision > 0 THEN <<".">> \o Zeros(precision) ELSE <<>>)
            \o <<"e", "+", "0">>
  ELSE ExponentialOf(v.n < 0, RoundSig(Abs(v.n), v.d, precision + 1), precision)

\* the rational with the digits r.m and the exponent r.e, negated when neg
PrecisionOf(neg, r, precision) ==
  IF r.e - precision + 1 >= 0
  THEN Q((IF neg THEN -1 ELSE 1) * r.m * IntPow(10, r.e - precision + 1), 1)
  ELSE Q((IF neg THEN -1 ELSE 1) * r.m, IntPow(10, precision - 1 - r.e))

\* parseFloat(value.toPrecision(precision)), for 0.0001 <= |value| < 1e9
ToPrecisionValue(v, precision) ==
  PrecisionOf(v.n < 0, RoundSig(Abs(v.n), v.d, precision), precision)

\* Math.abs(value) < 0.0001 && value !== 0
IsTiny(v) == v.k = "q" /\ v.n # 0 /\ Abs(v.n) <= (v.d - 1) \div 10000

\* IsHuge with > for >=
IsHugeStrict(v) ==
  \/ v.k = "big"
  \/ v.k = "q" /\ Abs(v.n) \div v.d > 1000000000
  \/ v.k = "q" /\ Abs(v.n) \div v.d = 1000000000 /\ Abs(v.n) % v.d # 0

\* Math.abs(value) >= 1e9
IsHuge(v) ==
  \/ v.k = "big"
  \/ v.k = "q" /\ Abs(v.n) \div v.d >= 1000000000

formatNumber(value, precision) ==
  CASE IsTiny(value) -> ToExponential(value, precision)
    [] IsHuge(value) -> ToExponential(value, precision)
    \* 0 and -0: toPrecision gives "0.000", parseFloat 0
    [] value = NegZero \/ (value.k = "q" /\ value.n = 0) -> <<"0">>
    [] DigitsComputable(value) ->
         NumberToString(ToPrecisionValue(value, precision))
    [] value.k = "q" -> LargeDigits
    [] value = Irr(1, <<"P","I">>) -> <<"3",".","1","4","2">>
    [] value = Irr(1, <<"E">>) -> <<"2",".","7","1","8">>
    [] OTHER -> IrrationalDigits

(***************************************************************************)
(* The renderer: processTextRobust and MathText.  Offsets are zero-based   *)
(* as in the source; markup is a sequence whose elements are the           *)
(* characters copied from the input and one element for each fixed piece   *)
(* of markup.                                                              *)
(***************************************************************************)
\* text[j], the empty string standing for undefined
At(text, j) == CharAt(text, j + 1)

Segment(type, content) == [type |-> type, content |-> content]

\* FindBlockClose taking the last $$ of the input
FindBlockCloseLast(text, j) ==
  IF \E q \in j..(Len(text) - 2) : At(text, q) = "$" /\ At(text, q + 1) = "$"
  THEN CHOOSE q \in j..(Len(text) - 2) :
         /\ At(text, q) = "$" /\ At(text, q + 1) = "$"
         /\ \A r \in (q + 1)..(Len(text) - 2) :
              ~(At(text, r) = "$" /\ At(text, r + 1) = "$")
  ELSE -1

\* the inner loop of the block branch: the offset of the closing $$ at or
\* after j, or -1 when the loop ends without one
RECURSIVE FindBlockClose(_, _)
FindBlockClose(text, j) ==
  IF j < Len(text) - 1
  THEN IF At(text, j) = "$" /\ At(text, j + 1) = "$" THEN j
       ELSE FindBlockClose(text, j + 1)
  ELSE -1

\* FindInlineClose taking the first $, a pair or not
RECURSIVE FindInlineCloseFirst(_, _)
FindInlineCloseFirst(text, j) ==
  IF j < Len(text)
  THEN IF At(text, j) = "$" THEN j ELSE FindInlineCloseFirst(text, j + 1)
  ELSE -1

\* the inner loop of the inline branch
RECURSIVE FindInlineClose(_, _)
FindInlineClose(text, j) ==
  IF j < Len(text)
  THEN IF At(text, j) = "$"
       THEN IF j + 1 < Len(text) /\ At(text, j + 1) = "$"
            THEN FindInlineClose(text, j + 2)
            ELSE j
       ELSE FindInlineClose(text, j + 1)
  ELSE -1

\* FindMathClose taking the first "}", whatever the depth
RECURSIVE FindMathCloseFlat(_, _, _)
FindMathCloseFlat(text, j, depth) ==
  IF j < Len(text)
  THEN IF At(text, j) = "}" THEN j ELSE FindMathCloseFlat(text, j + 1, depth)
  ELSE -1

\* the inner loop of the math branch
RECURSIVE FindMathClose(_, _, _)
FindMathClose(text, j, depth) ==
  IF j < Len(text)
  THEN LET d == CASE At(text, j) = "{" -> depth + 1
                  [] At(text, j) = "}" -> depth - 1
                  [] OTHER -> depth
       IN IF At(text, j) = "}" /\ d = 0 THEN j
          ELSE FindMathClose(text, j + 1, d)
  ELSE -1

\* the offsets j at which the inner loop of the block branch is entered
RECURSIVE BlockVisits(_, _)
BlockVisits(text, j) ==
  IF j < Len(text) - 1
  THEN IF At(text, j) = "$" /\ At(text, j + 1) = "$" THEN <<j>>
       ELSE <<j>> \o BlockVisits(text, j + 1)
  ELSE <<>>

\* those of the inner loop of the inline branch
RECURSIVE InlineVisits(_, _)
InlineVisits(text, j) ==
  IF j < Len(text)
  THEN IF At(text, j) = "$"
       THEN IF j + 1 < Len(text) /\ At(text, j + 1) = "$"
            THEN <<j>> \o InlineVisits(text, j + 2)
            ELSE <<j>>
       ELSE <<j>> \o InlineVisits(text, j + 1)
  ELSE <<>>

\* those of the inner loop of the math branch
RECURSIVE MathVisits(_, _, _)
MathVisits(text, j, depth) ==
  IF j < Len(text)
  THEN LET d == CASE At(text, j) = "{" -> depth + 1
                  [] At(text, j) = "}" -> depth - 1
                  [] OTHER -> depth
       IN IF At(text, j) = "}" /\ d = 0 THEN <<j>>
          ELSE <<j>> \o MathVisits(text, j + 1, d)
  ELSE <<>>

\* TextStep that does not move on
TextStepStay(text, i) == [seg |-> Segment("text", <<At(text, i)>>), i |-> i]

\* one pass of the outer loop that starts with a character no branch takes,
\* and the fallback of every branch
TextStep(text, i) == [seg |-> Segment("text", <<At(text, i)>>), i |-> i + 1]

\* BlockStep resuming on the second character of the closing delimiter
BlockStepShort(text, i) ==
  LET j == FindBlockClose(text, i + 2)
  IN IF j # -1
     THEN [seg |-> Segment("latex-block", Substring(text, i + 2, j)),
           i |-> j + 1]
     ELSE TextStep(text, i)

BlockStep(text, i) ==
  LET j == FindBlockClose(text, i + 2)
  IN IF j # -1
     THEN [seg |-> Segment("latex-block", Substring(text, i + 2, j)),
           i |-> j + 2]
     ELSE TextStep(text, i)

\* InlineStep resuming right after the opening delimiter
InlineStepRescan(text, i) ==
  LET j == FindInlineClose(text, i + 1)
  IN IF j # -1
     THEN [seg |-> Segment("latex-inline", Substring(text, i + 1, j)),
           i |-> i + 1]
     ELSE TextStep(text, i)

InlineStep(text, i) ==
  LET j == FindInlineClose(text, i + 1)
  IN IF j # -1
     THEN [seg |-> Segment("latex-inline", Substring(text, i + 1, j)),
           i |-> j + 1]
     ELSE TextStep(text, i)

\* MathStep whose fallback takes the rest of the input as text
MathStepSwallow(text, i) ==
  LET j == FindMathClose(text, i + 1, 1)
  IN IF j # -1
     THEN [seg |-> Segment("math", Substring(text, i + 1, j)), i |-> j + 1]
     ELSE [seg |-> Segment("text", Substring(text, i, Len(text))),
           i |-> Len(text)]

MathStep(text, i) ==
  LET j == FindMathClose(text, i + 1, 1)
  IN IF j # -1
     THEN [seg |-> Segment("math", Substring(text, i + 1, j)), i |-> j + 1]
     ELSE TextStep(text, i)

\* the conditions of the three branches of the outer loop
IsBlockOpen(text, i) ==
  At(text, i) = "$" /\ i + 1 < Len(text) /\ At(text, i + 1) = "$"

IsInlineOpen(text, i) == At(text, i) = "$" /\ ~IsBlockOpen(text, i)

IsMathOpen(text, i) == At(text, i) = "{"

\* katex.renderToString: the library's markup is one opening element that
\* tells the display mode, the source it was given, one closing element
KatexOpen(displayMode) ==
  IF displayMode THEN "<span class=\"katex-display\">"
  ELSE "<span class=\"katex\">"

KatexClose == "</span><!--katex-->"

renderToString(content, displayMode) ==
  <<KatexOpen(displayMode)>> \o content \o <<KatexClose>>

SpanOpen ==
  "<span class=\"math-result bg-blue-100 px-1 rounded text-blue-800 font-mono text-sm\" title=\""

SpanClose == "</span>"

\* what a pass of the segment loop appends, or the exception that leaves it
Appended(out) == [threw |-> FALSE, out |-> out]

Escaped == [threw |-> TRUE, out |-> <<>>]

RenderText(content) == Appended(content)

\* RenderBlock whose fallback wraps the content in single delimiters
RenderBlockSingle(content, katexThrows) ==
  IF katexThrows THEN Appended(<<"$">> \o content \o <<"$">>)
  ELSE Appended(renderToString(content, TRUE))

RenderBlock(content, katexThrows) ==
  IF katexThrows THEN Appended(<<"$", "$">> \o content \o <<"$", "$">>)
  ELSE Appended(renderToString(content, TRUE))

\* RenderInline without its catch clause
RenderInlineUncaught(content, katexThrows) ==
  IF katexThrows THEN Escaped
  ELSE Appended(renderToString(content, FALSE))

RenderInline(content, katexThrows) ==
  IF katexThrows THEN Appended(<<"$">> \o content \o <<"$">>)
  ELSE Appended(renderToString(content, FALSE))

\* MathFallback without the braces
MathFallbackBare(content) == content

\* the fallback of the math branch
MathFallback(content) == <<"{">> \o content \o <<"}">>

\* a template literal that puts the content in quotes
MathSpanQuoted(content, value) ==
  <<SpanOpen, "\"">> \o content \o <<"\"", " ", "=", " ">> \o NumberToString(value)
  \o <<"\"", ">">> \o formatNumber(value, 4) \o <<SpanClose>>

\* the template literal of the math branch
MathSpan(content, value) ==
  <<SpanOpen>> \o content \o <<" ", "=", " ">> \o NumberToString(value)
  \o <<"\"", ">">> \o formatNumber(value, 4) \o <<SpanClose>>

\* ev is the outcome of evaluateMathExpression(content)
RenderMath(content, ev) ==
  IF ev.threw THEN Appended(MathFallback(content))
  ELSE Appended(MathSpan(content, ev.value))

\* withLineBreaks replacing the first line break only
RECURSIVE withFirstLineBreak(_)
withFirstLineBreak(html) ==
  IF html = <<>> THEN <<>>
  ELSE IF Head(html) = "\n" THEN <<"<br/>">> \o Tail(html)
  ELSE <<Head(html)>> \o withFirstLineBreak(Tail(html))

\* processedHtml.split('\n').join('<br/>')
RECURSIVE withLineBreaks(_)
withLineBreaks(html) ==
  IF html = <<>> THEN <<>>
  ELSE (IF Head(html) = "\n" THEN <<"<br/>">> ELSE <<Head(html)>>)
       \o withLineBreaks(Tail(html))

(***************************************************************************)
(* processText, the renderer by substitution.  Its working text is a       *)
(* sequence of elements: a character of the input, or a placeholder that   *)
(* stands for the markup put back in the last step.  name is what the      *)
(* patterns and the typesetter see of the element, c its first character.  *)
(***************************************************************************)
LATEX_BLOCK_PREFIX == "%%LATEX_BLOCK_"

LATEX_INLINE_PREFIX == "%%LATEX_INLINE_"

Chr(c) == [t |-> "chr", c |-> c, name |-> <<c>>, body |-> <<c>>]

\* `${PREFIX}${index}%%`, one element of markup for the prefix, the digits
Placeholder(prefix, index, body) ==
  [t |-> "placeholder", c |-> "%",
   name |-> <<prefix>> \o IntDigits(index) \o <<"%", "%">>, body |-> body]

\* the span a successful evaluation puts in place of {expression}
Replaced(body) == [t |-> "span", c |-> "<", name |-> body, body |-> body]

Names(es) == Flatten([k \in DOMAIN es |-> es[k].name])

\* String.prototype.trim
RECURSIVE TrimStart(_)
TrimStart(str) ==
  IF str # <<>> /\ IsSpace(Head(str)) THEN TrimStart(Tail(str)) ELSE str

RECURSIVE TrimEnd(_)
TrimEnd(str) ==
  IF str # <<>> /\ IsSpace(str[Len(str)])
  THEN TrimEnd(SubSeq(str, 1, Len(str) - 1)) ELSE str

Trim(str) == TrimEnd(TrimStart(str))

\* what is kept for a placeholder: the typesetter's markup, or the match
TypesetOrMatch(latex, displayMode, match, katexThrows) ==
  IF katexThrows THEN match ELSE renderToString(latex, displayMode)

\* step 1: replace(/\$\$([\s\S]+?)\$\$/g, ...) from offset p on, blockIndex
\* being n
RECURSIVE ProtectBlocks(_, _, _, _)
ProtectBlocks(text, p, n, katexThrows) ==
  IF p >= Len(text) THEN <<>>
  ELSE IF At(text, p) = "$" /\ At(text, p + 1) = "$"
          /\ FindBlockClose(text, p + 3) # -1
  THEN <<Placeholder(LATEX_BLOCK_PREFIX, n,
            TypesetOrMatch(Substring(text, p + 2, FindBlockClose(text, p + 3)),
                           TRUE,
                           Substring(text, p, FindBlockClose(text, p + 3) + 2),
                           katexThrows))>>
       \o ProtectBlocks(text, FindBlockClose(text, p + 3) + 2, n + 1,
                        katexThrows)
  ELSE <<Chr(At(text, p))>> \o ProtectBlocks(text, p + 1, n, katexThrows)

\* the position of the first element at or after p whose first character is
\* in cs, 0 when there is none
RECURSIVE NextOf_(_, _, _)
NextOf_(es, p, cs) ==
  IF p > Len(es) THEN 0
  ELSE IF es[p].c \in cs THEN p
  ELSE NextOf_(es, p + 1, cs)

\* /\$([^$\s][^$]*?[^$\s]?)\$|\$([^$\s])\$/ matches at position p of es
InlineMatches(es, p) ==
  /\ es[p].c = "$"
  /\ p + 1 <= Len(es)
  /\ es[p + 1].c # "$" /\ ~IsSpace(es[p + 1].c)
  /\ NextOf_(es, p + 2, {"$"}) # 0

\* step 2: the replace of the inline pattern from position p on, inlineIndex
\* being n
RECURSIVE ProtectInlines(_, _, _, _)
ProtectInlines(es, p, n, katexThrows) ==
  IF p > Len(es) THEN <<>>
  ELSE IF InlineMatches(es, p)
  THEN <<Placeholder(LATEX_INLINE_PREFIX, n,
            TypesetOrMatch(
              Trim(Names(SubSeq(es, p + 1, NextOf_(es, p + 2, {"$"}) - 1))),
              FALSE,
              Names(SubSeq(es, p, NextOf_(es, p + 2, {"$"}))),
              katexThrows))>>
       \o ProtectInlines(es, NextOf_(es, p + 2, {"$"}) + 1, n + 1, katexThrows)
  ELSE <<es[p]>> \o ProtectInlines(es, p + 1, n, katexThrows)

\* /\{([^{}]+)\}/ matches at position p of es
BracesMatch(es, p) ==
  /\ es[p].c = "{"
  /\ NextOf_(es, p + 1, {"{", "}"}) > p + 1
  /\ es[NextOf_(es, p + 1, {"{", "}"})].c = "}"

\* match.includes(LATEX_BLOCK_PREFIX) || match.includes(LATEX_INLINE_PREFIX)
HasPlaceholder(es) == \E k \in DOMAIN es : es[k].t = "placeholder"

\* what the callback of step 3 returns for the match es, ev being the
\* outcome of evaluateMathExpression(expression.trim())
EvaluatedOrMatch(es, expr, ev) ==
  IF ev.threw THEN es ELSE <<Replaced(MathSpan(expr, ev.value))>>

\* step 3: replace(/\{([^{}]+)\}/g, ...) from position p on
RECURSIVE EvaluateBraces(_, _, _, _)
RECURSIVE AfterBraces(_, _, _, _, _)
EvaluateBraces(es, p, ow, rnds) ==
  IF p > Len(es) THEN <<>>
  ELSE IF ~BracesMatch(es, p)
  THEN <<es[p]>> \o EvaluateBraces(es, p + 1, ow, rnds)
  ELSE IF HasPlaceholder(SubSeq(es, p, NextOf_(es, p + 1, {"{", "}"})))
  THEN SubSeq(es, p, NextOf_(es, p + 1, {"{", "}"}))
       \o EvaluateBraces(es, NextOf_(es, p + 1, {"{", "}"}) + 1, ow, rnds)
  ELSE AfterBraces(es, p, NextOf_(es, p + 1, {"{", "}"}), rnds,
         evaluateMathExpression(
           Trim(Names(SubSeq(es, p + 1, NextOf_(es, p + 1, {"{", "}"}) - 1))),
           ow, rnds))

AfterBraces(es, p, q, rnds, ev) ==
  EvaluatedOrMatch(SubSeq(es, p, q), Trim(Names(SubSeq(es, p + 1, q - 1))), ev)
  \o EvaluateBraces(es, q + 1, ev.ow, rnds)

\* step 4: every placeholder replaced by what was kept for it
Restore(es) == Flatten([k \in DOMAIN es |-> es[k].body])

processText(text, katexThrows, rnds) ==
  Restore(EvaluateBraces(
            ProtectInlines(ProtectBlocks(text, 0, 0, katexThrows), 1, 0,
                           katexThrows),
            1, {}, rnds))

(***************************************************************************)
(* parseTextWithMath and evaluateTextExpressions of the evaluator's file.  *)
(***************************************************************************)
Block(start, end) == [start |-> start, end |-> end]

\* the matches of /\$\$([\s\S]+?)\$\$/g from offset p on
RECURSIVE DisplayBlocks(_, _)
DisplayBlocks(text, p) ==
  IF p >= Len(text) THEN <<>>
  ELSE IF At(text, p) = "$" /\ At(text, p + 1) = "$"
          /\ FindBlockClose(text, p + 3) # -1
  THEN <<Block(p, FindBlockClose(text, p + 3) + 2)>>
       \o DisplayBlocks(text, FindBlockClose(text, p + 3) + 2)
  ELSE DisplayBlocks(text, p + 1)

\* the offset of the "$" that ends (.+?) when what precedes offset q matched
\* it so far, -1 when a line break or the end of the text comes first
RECURSIVE InlineEnd(_, _)
InlineEnd(text, q) ==
  IF q >= Len(text) \/ At(text, q - 1) = "\n" THEN -1
  ELSE IF At(text, q) = "$" THEN q
  ELSE InlineEnd(text, q + 1)

\* the matches of /\$(.+?)\$/g from offset p on
RECURSIVE InlineBlocks(_, _)
InlineBlocks(text, p) ==
  IF p >= Len(text) THEN <<>>
  ELSE IF At(text, p) = "$" /\ InlineEnd(text, p + 2) # -1
  THEN <<Block(p, InlineEnd(text, p + 2) + 1)>>
       \o InlineBlocks(text, InlineEnd(text, p + 2) + 1)
  ELSE InlineBlocks(text, p + 1)

\* katexBlocks.some(block => match.index >= block.start && match.index < block.end)
IsInsideDisplay(b, displays) ==
  \E k \in DOMAIN displays :
    b.start >= displays[k].start /\ b.start < displays[k].end

\* katexBlocks.sort((a, b) => a.start - b.start)
RECURSIVE SortByStart(_)
SortByStart(S) ==
  IF S = {} THEN <<>>
  ELSE LET first == CHOOSE b \in S : \A c \in S : b.start <= c.start
       IN <<first>> \o SortByStart(S \ {first})

\* the display blocks and the inline ones that do not start in a display one
KatexBlocksOf(displays, inlines) ==
  SortByStart({displays[k] : k \in DOMAIN displays}
              \cup {inlines[k] : k \in
                      {m \in DOMAIN inlines : ~IsInsideDisplay(inlines[m], displays)}})

katexBlocks(text) == KatexBlocksOf(DisplayBlocks(text, 0), InlineBlocks(text, 0))

TextSegment(type, content, formatted) ==
  [type |-> type, content |-> content, formatted |-> formatted]

\* a text segment for str.slice(a, b), none when it is empty
SliceSegment(str, a, b) ==
  IF b > a THEN <<TextSegment("text", Substring(str, a, b), <<>>)>> ELSE <<>>

\* the offset of the first c at or after q, -1 without one
RECURSIVE FindChar(_, _, _)
FindChar(str, q, c) ==
  IF q >= Len(str) THEN -1
  ELSE IF At(str, q) = c THEN q
  ELSE FindChar(str, q + 1, c)

\* /\{([^}]+)\}/ matches at offset p
ExpressionMatches(str, p) ==
  /\ At(str, p) = "{"
  /\ p + 1 < Len(str) /\ At(str, p + 1) # "}"
  /\ FindChar(str, p + 2, "}") # -1

\* the segment pushed for {expression}, ev being the outcome of
\* evaluateMathExpression(expression)
EvaluatedSegment(expr, ev) ==
  IF ev.threw THEN TextSegment("error", expr, <<>>)
  ELSE TextSegment("math", expr, formatNumber(ev.value, 4))

Joined2(segs, rest) == [segs |-> segs \o rest.segs, ow |-> rest.ow]

\* processMathInText from offset p on, localLastIndex being last
RECURSIVE processMathInText(_, _, _, _, _)
RECURSIVE AfterExpression(_, _, _, _, _, _)
processMathInText(str, p, last, ow, rnds) ==
  IF p >= Len(str)
  THEN [segs |-> SliceSegment(str, last, Len(str)), ow |-> ow]
  ELSE IF ~ExpressionMatches(str, p)
  THEN processMathInText(str, p + 1, last, ow, rnds)
  ELSE AfterExpression(str, p, FindChar(str, p + 2, "}"), last, rnds,
         evaluateMathExpression(
           Trim(Substring(str, p + 1, FindChar(str, p + 2, "}"))), ow, rnds))

AfterExpression(str, p, q, last, rnds, ev) ==
  Joined2(SliceSegment(str, last, p)
          \o <<EvaluatedSegment(Trim(Substring(str, p + 1, q)), ev)>>,
          processMathInText(str, q + 1, q + 1, ev.ow, rnds))

\* the loop over katexBlocks from block k on, and what follows it
RECURSIVE ParseBlocks(_, _, _, _, _, _)
RECURSIVE AfterTextBefore(_, _, _, _, _)
ParseBlocks(text, blocks, k, lastIndex, ow, rnds) ==
  IF k > Len(blocks)
  THEN IF lastIndex < Len(text)
       THEN processMathInText(Substring(text, lastIndex, Len(text)), 0, 0,
                              ow, rnds)
       ELSE [segs |-> <<>>, ow |-> ow]
  ELSE IF blocks[k].start > lastIndex
  THEN AfterTextBefore(text, blocks, k, rnds,
         processMathInText(Substring(text, lastIndex, blocks[k].start), 0, 0,
                           ow, rnds))
  ELSE Joined2(SliceSegment(text, blocks[k].start, blocks[k].end),
               ParseBlocks(text, blocks, k + 1, blocks[k].end, ow, rnds))

AfterTextBefore(text, blocks, k, rnds, before) ==
  Joined2(before.segs \o SliceSegment(text, blocks[k].start, blocks[k].end),
          ParseBlocks(text, blocks, k + 1, blocks[k].end, before.ow, rnds))

\* segments.length > 0 ? segments : [{ type: 'text', content: text }]
OrWholeText(text, parsed) ==
  IF parsed.segs # <<>> THEN parsed
  ELSE [segs |-> <<TextSegment("text", text, <<>>)>>, ow |-> parsed.ow]

parseTextWithMath(text, ow, rnds) ==
  OrWholeText(text, ParseBlocks(text, katexBlocks(text), 1, 0, ow, rnds))

\* segments.map(...).join('')
JoinSegments(segs) ==
  Flatten([k \in DOMAIN segs |->
             IF segs[k].type = "math" /\ segs[k].formatted # <<>>
             THEN segs[k].formatted ELSE segs[k].content])

evaluateTextExpressions(parsed) ==
  [called |-> TRUE, segs |-> parsed.segs, out |-> JoinSegments(parsed.segs)]

(***************************************************************************)
(* The inputs the checks draw from.                                        *)
(***************************************************************************)
\* the longest expression, counted in lexemes, that is enumerated
MaxLex == 3

\* the longest text, counted in characters, that is enumerated
MaxLen == 5

\* the sequences over S of length at most n
RECURSIVE SeqsUpTo(_, _)
SeqsUpTo(S, n) ==
  IF n = 0 THEN {<<>>}
  ELSE LET shorter == SeqsUpTo(S, n - 1)
       IN shorter \cup {Append(q, x) : q \in shorter, x \in S}

\* the lexemes the enumerated expressions are written with
Lexemes ==
  { <<"2">>, <<"3">>, <<"+">>, <<"-">>, <<"*">>, <<"^">>, <<"(">>, <<")">>,
    <<"s","q","r","t">> }

\* expressions of the documentation and of the cases the contract names
ExampleExpressions ==
  { <<"2","^","3"," ","+"," ","s","q","r","t","(","1","6",")">>,
    <<"-","2","^","2">>,
    <<"(","-","2",")","^","2">>,
    <<"1","e","3","+","1","e","3">>,
    <<"1","e","3">>,
    <<"1","/","0">>,
    <<"-","1","/","0">>,
    <<"0","/","0">>,
    <<"7","%","3">>,
    <<"1",".","5","*","2">>,
    <<"s","q","r","t">>,
    <<"r","a","n","d","o","m","(",")">>,
    <<"r","a","n","d","o","m","(",")","*","0">>,
    <<"P","I">>,
    <<"p","i">>,
    <<"E">>,
    <<"L","N","2">>,
    <<"L","N","1","0">>,
    <<"L","O","G","2","E">>,
    <<"L","O","G","1","0","E">>,
    <<"S","Q","R","T","2">>,
    <<"S","Q","R","T","1","_","2">>,
    <<"2","*","P","I">>,
    <<"M","a","t","h",".","h","y","p","o","t","(","3",",","4",")">>,
    <<"p","r","o","c","e","s","s",".","e","x","i","t","(",")">>,
    <<"s","q","r","t","+","+">>,
    <<"s","q","r","t","(","4",")">>,
    <<"m","a","x","(","2",",","3",")">>,
    <<"a","b","s","(","-","3",")">>,
    <<"p","o","w","(","2",",","1","0",")">>,
    <<"l","n","(","E",")">>,
    <<"2","^","3","^","2">>,
    <<"x","+","1">>,
    <<"2","e","3">>,
    <<"e">>,
    <<" "," ">>,
    <<" ","2"," ","+","\n","2">>,
    <<>>,
    <<" ">> }

EvalInputs ==
  ExampleExpressions \cup {Flatten(ls) : ls \in SeqsUpTo(Lexemes, MaxLex)}

\* expressions other callers evaluate between two calls
OtherExpressions ==
  { <<"s","q","r","t","+","+">> }

\* the values Math.random() may return, two draws for each call
RandomValues == {Q(1, 4), Q(3, 4)}

RandomDraws ==
  {d \in {<<a, b>> : a \in RandomValues, b \in RandomValues} : d[1] # d[2]}

\* the largest precision formatNumber is called with
MaxPrecision == 4

Precisions == 1..MaxPrecision

\* the digits the formatted numbers are written with, and the powers of ten
\* they are scaled by
FormatMantissas ==
  {1, 2, 5, 15, 25, 125, 1234, 12345, 99994, 99995, 99996, 100049, 100050}

FormatExponents == (-8)..9

\* m * 10^k as a number, when it stays within the checker's integers
Scaled(m, k) ==
  IF k >= 0 THEN Q(m * IntPow(10, k), 1) ELSE Q(m, IntPow(10, -k))

Scalable(m, k) ==
  k >= 0 => m <= 2147483647 \div IntPow(10, k)

\* 12.3456789, 12.34, 0.00005, 999960000
ExampleNumbers ==
  { Q(123456789, 10000000), Q(1234, 100), Q(5, 100000), QInt(999960000),
    QInt(0), NegZero }

FormatInputs ==
  ExampleNumbers
  \cup {Scaled(m, k) : <<m, k>> \in
          {mk \in FormatMantissas \X FormatExponents : Scalable(mk[1], mk[2])}}
  \cup {NumNeg(Scaled(m, k)) : <<m, k>> \in
          {mk \in FormatMantissas \X FormatExponents : Scalable(mk[1], mk[2])}}

\* d is a power of two: n/d is a double exactly
RECURSIVE IsDyadic(_)
IsDyadic(d) == d = 1 \/ (d % 2 = 0 /\ IsDyadic(d \div 2))

\* n/d lies halfway between two numbers of count significant digits
HalfwayAt(n, d, count) ==
  /\ Len(StripTrailingZeros(SigDigits(n, d, 12).ds)) = count + 1
  /\ StripTrailingZeros(SigDigits(n, d, 12).ds)[count + 1] = "5"

\* the rounding of the double nearest to v is the rounding of v itself: v is
\* that double, or its decimal digits decide which way the rounding goes
DigitsDecide(v, precision) ==
  \/ v = NegZero \/ v.n = 0
  \/ IsDyadic(v.d)
  \/ ~HalfwayAt(Abs(v.n), v.d,
                IF IsTiny(v) \/ IsHuge(v) THEN precision + 1 ELSE precision)

\* the calls formatNumber(value, precision) that are made
FormatCalls ==
  {c \in FormatInputs \X Precisions : DigitsDecide(c[1], c[2])}

RenderAlphabet == {"$", "{", "}", "2", "x", "\n"}

\* texts of the documentation
ExampleTexts ==
  { <<"$","x","_","{","i","}","$"," ","a","n","d"," ","{","2","*","3","}">>,
    <<"$","$","a","+","b","=","c","$","$"," ","t","h","e","n"," ","{","1","+","1","}">>,
    <<"v","a","l","u","e"," ","i","s"," ","{","2","+","2">>,
    <<"{","1","/","0","}">>,
    <<"{"," ","2"," ","+"," ","2"," ","}">>,
    <<"{","r","a","n","d","o","m","(",")","}">>,
    <<"p","l","a","i","n"," ","t","e","x","t",","," ","n","o"," ","m","a","r","k","u","p">>,
    <<"{","s","q","r","t","+","+","}","{","s","q","r","t","(","4",")","}">>,
    <<"{","2","<","3","}"," ","{","\"","2","\"","}"," ","{","2","&","2","}">>,
    <<"{","m","a","x","(","2",","," ","3",")"," ","%"," ","2","}">> }

RenderInputs == ExampleTexts \cup SeqsUpTo(RenderAlphabet, MaxLen)

\* texts with typeset spans and expressions for evaluateTextExpressions
ParseExamples ==
  { <<"$","$","a","$","$"," ","$","x","_","{","2","}","$">>,
    <<"$","x","_","{","2","}","$"," ","$","$","a","$","$">>,
    <<"$","a","$","$","b","$","$">>,
    <<"{","x","}">>,
    <<"a"," ","{","2","+","2","}"," ","b">>,
    <<"n","o"," ","b","r","a","c","e","s">> }

ParseInputs == ParseExamples \cup RenderInputs

(***************************************************************************)
(* State.                                                                  *)
(***************************************************************************)
VARIABLES
  expression,  \* the argument of evaluateMathExpression
  result,      \* the outcome of the latest call
  previous,    \* the outcome of the call before it
  calls,       \* how many calls were made with this expression, up to 2
  mathOw,      \* the members of the global Math object that were overwritten
  text,        \* the argument of MathText
  i,           \* the scanner's offset
  segments,    \* the segments scanned so far
  starts,      \* the offset at which each segment was opened
  visits,      \* the offsets the outer and the inner loops were at, in order
  rpc,         \* where the renderer is
  html,        \* the markup built so far
  pieces,      \* what each processed segment appended
  rendered,    \* the markup MathText passes on
  fmtValue,    \* the first argument of formatNumber
  fmtPrecision,\* its second argument
  formatted,   \* what formatNumber returned, <<>> before the call
  regexHtml,   \* what processText returned for text, once it was called
  parsed,      \* what evaluateTextExpressions(text) returned and went through
  progress,    \* useProblemData: the progress state
  progressStore, \* localStorage under STORAGE_KEY
  toggles,     \* the latest calls of markSolved and toggleBookmark, up to 2
  authStore,   \* localStorage under AUTH_STORAGE_KEY
  isAuthenticated, \* AuthProvider: the isAuthenticated state
  isLoading,   \* AuthProvider: the isLoading state
  now,         \* Date.now()
  authSeen,    \* what checkAuth found in storage, "unmounted" before it ran
  filters,     \* useProblemData: the filters state
  searchQuery, \* MainApp: the searchQuery state
  viewMode,    \* MainApp: the viewMode state
  currentProblemIndex, \* MainApp: the currentProblemIndex state
  shuffledProblems,    \* MainApp: the shuffledProblems state
  isExamMode,  \* MainApp: the isExamMode state
  timerRunning, \* MainApp: the timerRunning state
  currentPage, \* MainApp: the currentPage state
  problemsPerPage, \* MainApp: the problemsPerPage state
  timerMounted, \* whether a Timer component is mounted
  timeRemaining \* Timer: the timeRemaining state, the last one when unmounted

evalVars == <<expression, result, previous, calls>>

renderVars == <<text, i, segments, starts, visits, rpc, html, pieces, rendered>>

formatVars == <<fmtValue, fmtPrecision, formatted>>

regexVars == <<regexHtml, parsed>>

progressVars == <<progress, progressStore, toggles>>

authVars == <<authStore, isAuthenticated, isLoading, now, authSeen>>

pageVars == <<filters, searchQuery, viewMode, currentProblemIndex,
              shuffledProblems, isExamMode, timerRunning, currentPage,
              problemsPerPage>>

timerVars == <<timerMounted, timeRemaining>>

appVars == <<progressVars, authVars, pageVars, timerVars>>

coreVars == <<evalVars, mathOw, renderVars, formatVars, regexVars>>

vars == <<coreVars, appVars>>

(***************************************************************************)
(* The application state at rest.                                          *)
(***************************************************************************)
\* localStorage.getItem: null when the key is absent
NoItem == [item |-> FALSE, value |-> <<>>]

Item(v) == [item |-> TRUE, value |-> v]

defaultProgress ==
  [solvedProblems |-> <<>>, bookmarkedProblems |-> <<>>, lastVisited |-> "t0"]

NoFilters ==
  [categories |-> {}, subcategories |-> {}, difficulties |-> {}, codes |-> {}]

PROBLEMS_PER_PAGE == 5

ProgressIdle ==
  /\ progress = defaultProgress
  /\ progressStore = NoItem
  /\ toggles = <<>>

AuthIdle ==
  /\ authStore = NoItem
  /\ isAuthenticated = FALSE
  /\ isLoading = TRUE
  /\ now = 0
  /\ authSeen = "unmounted"

PageIdle ==
  /\ filters = NoFilters
  /\ searchQuery = <<>>
  /\ viewMode = "practice"
  /\ currentProblemIndex = 0
  /\ shuffledProblems = <<>>
  /\ isExamMode = FALSE
  /\ timerRunning = FALSE
  /\ currentPage = 1
  /\ problemsPerPage = PROBLEMS_PER_PAGE

TimerIdle ==
  /\ timerMounted = FALSE
  /\ timeRemaining = 0

AppIdle == ProgressIdle /\ AuthIdle /\ PageIdle /\ TimerIdle

NoResult ==
  [threw |-> FALSE, value |-> Undef, ow |-> {}, ri |-> 0, um |-> FALSE,
   raw |-> NoRun]

EvalIdle ==
  /\ expression = <<>>
  /\ result = NoResult
  /\ previous = NoResult
  /\ calls = 0

NotCalled == [called |-> FALSE, threw |-> FALSE, out |-> <<>>]

NotParsed == [called |-> FALSE, segs |-> <<>>, out |-> <<>>]

FormatIdle ==
  /\ fmtValue = QInt(0)
  /\ fmtPrecision = 4
  /\ formatted = <<>>
  /\ regexHtml = NotCalled
  /\ parsed = NotParsed

RenderIdle ==
  /\ text = <<>>
  /\ i = 0
  /\ segments = <<>>
  /\ starts = <<>>
  /\ visits = <<>>
  /\ rpc = "idle"
  /\ html = <<>>
  /\ pieces = <<>>
  /\ rendered = <<>>

(***************************************************************************)
(* The evaluator called on its own.                                        *)
(***************************************************************************)
InitEval ==
  /\ expression \in EvalInputs
  /\ result = NoResult
  /\ previous = NoResult
  /\ calls = 0
  /\ mathOw = {}
  /\ RenderIdle
  /\ FormatIdle
  /\ AppIdle

\* one call evaluateMathExpression(expression)
Evaluate ==
  \E rnds \in RandomDraws :
    /\ result' = evaluateMathExpression(expression, mathOw, rnds)
    /\ previous' = result
    /\ calls' = IF calls < 2 THEN calls + 1 ELSE 2
    /\ mathOw' = result'.ow
    /\ UNCHANGED <<expression, renderVars, formatVars, regexVars, appVars>>

\* a call of another caller between two calls with this expression
EvaluateOther ==
  \E e \in OtherExpressions, rnds \in RandomDraws :
    /\ mathOw' = evaluateMathExpression(e, mathOw, rnds).ow
    /\ UNCHANGED <<evalVars, renderVars, formatVars, regexVars, appVars>>

NextEval == Evaluate \/ EvaluateOther

SpecEval == InitEval /\ [][NextEval]_vars

(***************************************************************************)
(* The renderer: MathText(text).                                           *)
(***************************************************************************)
InitRender ==
  /\ text \in RenderInputs
  /\ i = 0
  /\ segments = <<>>
  /\ starts = <<>>
  /\ visits = <<>>
  /\ rpc = "scan"
  /\ html = <<>>
  /\ pieces = <<>>
  /\ rendered = <<>>
  /\ mathOw = {}
  /\ EvalIdle
  /\ FormatIdle
  /\ AppIdle

\* the end of one pass of the outer loop
Push(step, inner) ==
  /\ segments' = Append(segments, step.seg)
  /\ starts' = Append(starts, i)
  /\ visits' = visits \o <<i>> \o inner
  /\ i' = step.i
  /\ UNCHANGED <<text, rpc, html, pieces, rendered, evalVars, mathOw,
                 formatVars, regexVars, appVars>>

ScanBlock ==
  /\ rpc = "scan" /\ i < Len(text)
  /\ IsBlockOpen(text, i)
  /\ Push(BlockStep(text, i), BlockVisits(text, i + 2))

ScanInline ==
  /\ rpc = "scan" /\ i < Len(text)
  /\ IsInlineOpen(text, i)
  /\ Push(InlineStep(text, i), InlineVisits(text, i + 1))

ScanMath ==
  /\ rpc = "scan" /\ i < Len(text)
  /\ IsMathOpen(text, i)
  /\ Push(MathStep(text, i), MathVisits(text, i + 1, 1))

ScanText ==
  /\ rpc = "scan" /\ i < Len(text)
  /\ ~IsBlockOpen(text, i) /\ ~IsInlineOpen(text, i) /\ ~IsMathOpen(text, i)
  /\ Push(TextStep(text, i), <<>>)

\* the outer loop ends: let html = ''
ScanDone ==
  /\ rpc = "scan" /\ i >= Len(text)
  /\ rpc' = "process"
  /\ UNCHANGED <<text, i, segments, starts, visits, html, pieces, rendered,
                 evalVars, mathOw, formatVars, regexVars, appVars>>

\* the segment the loop over the segments is at
Current == segments[Len(pieces) + 1]

AtSegment(type) ==
  /\ rpc = "process" /\ Len(pieces) < Len(segments)
  /\ Current.type = type

\* the end of one pass of the loop over the segments: r is what the pass
\* did, failed whether its catch clause ran
Emit(r, failed) ==
  /\ IF r.threw
     THEN rpc' = "threw" /\ UNCHANGED <<html, pieces>>
     ELSE /\ html' = html \o r.out
          /\ pieces' = Append(pieces, [out |-> r.out, failed |-> failed])
          /\ UNCHANGED rpc
  /\ UNCHANGED <<text, i, segments, starts, visits, rendered, formatVars, regexVars, appVars>>

ProcessText ==
  /\ AtSegment("text")
  /\ Emit(RenderText(Current.content), FALSE)
  /\ UNCHANGED <<evalVars, mathOw>>

ProcessBlock ==
  /\ AtSegment("latex-block")
  /\ \E katexThrows \in BOOLEAN :
       Emit(RenderBlock(Current.content, katexThrows), katexThrows)
  /\ UNCHANGED <<evalVars, mathOw>>

ProcessInline ==
  /\ AtSegment("latex-inline")
  /\ \E katexThrows \in BOOLEAN :
       Emit(RenderInline(Current.content, katexThrows), katexThrows)
  /\ UNCHANGED <<evalVars, mathOw>>

ProcessMath ==
  /\ AtSegment("math")
  /\ \E rnds \in RandomDraws :
       /\ expression' = Current.content
       /\ result' = evaluateMathExpression(Current.content, mathOw, rnds)
       /\ previous' = result
       /\ calls' = IF calls < 2 THEN calls + 1 ELSE 2
       /\ mathOw' = result'.ow
       /\ Emit(RenderMath(Current.content, result'), result'.threw)

\* return html
Return ==
  /\ rpc = "process" /\ Len(pieces) = Len(segments)
  /\ rpc' = "returned"
  /\ UNCHANGED <<text, i, segments, starts, visits, html, pieces, rendered,
                 evalVars, mathOw, formatVars, regexVars, appVars>>

\* MathText: the markup handed to the element
LineBreaks ==
  /\ rpc = "returned"
  /\ rendered' = withLineBreaks(html)
  /\ rpc' = "done"
  /\ UNCHANGED <<text, i, segments, starts, visits, html, pieces, evalVars, mathOw,
                 formatVars, regexVars, appVars>>

NextRender ==
  \/ ScanBlock \/ ScanInline \/ ScanMath \/ ScanText \/ ScanDone
  \/ ProcessText \/ ProcessBlock \/ ProcessInline \/ ProcessMath
  \/ Return \/ LineBreaks

SpecRender == InitRender /\ [][NextRender]_vars

(***************************************************************************)
(* The two renderers called with the same text.                            *)
(***************************************************************************)
\* one call processText(text), the typesetter throwing or not
CallProcessText ==
  /\ rpc \in {"returned", "done"}
  /\ ~regexHtml.called
  /\ \E katexThrows \in BOOLEAN, rnds \in RandomDraws :
       regexHtml' = [called |-> TRUE, threw |-> katexThrows,
                     out |-> processText(text, katexThrows, rnds)]
  /\ UNCHANGED <<evalVars, mathOw, renderVars, formatVars, parsed, appVars>>

NextCompare == NextRender \/ CallProcessText

SpecCompare == InitRender /\ [][NextCompare]_vars

(***************************************************************************)
(* evaluateTextExpressions called on its own.                              *)
(***************************************************************************)
InitParse ==
  /\ text \in ParseInputs
  /\ i = 0
  /\ segments = <<>>
  /\ starts = <<>>
  /\ visits = <<>>
  /\ rpc = "idle"
  /\ html = <<>>
  /\ pieces = <<>>
  /\ rendered = <<>>
  /\ mathOw = {}
  /\ EvalIdle
  /\ FormatIdle
  /\ AppIdle

\* one call evaluateTextExpressions(text)
CallEvaluateTextExpressions ==
  /\ ~parsed.called
  /\ \E rnds \in RandomDraws :
       /\ parsed' = evaluateTextExpressions(parseTextWithMath(text, mathOw, rnds))
       /\ mathOw' = parseTextWithMath(text, mathOw, rnds).ow
  /\ UNCHANGED <<evalVars, renderVars, formatVars, regexHtml, appVars>>

NextParse == CallEvaluateTextExpressions

SpecParse == InitParse /\ [][NextParse]_vars

(***************************************************************************)
(* formatNumber called on its own.                                         *)
(***************************************************************************)
InitFormat ==
  /\ \E c \in FormatCalls : fmtValue = c[1] /\ fmtPrecision = c[2]
  /\ formatted = <<>>
  /\ regexHtml = NotCalled
  /\ parsed = NotParsed
  /\ mathOw = {}
  /\ EvalIdle
  /\ RenderIdle
  /\ AppIdle

\* one call formatNumber(fmtValue, fmtPrecision)
Format ==
  /\ formatted = <<>>
  /\ formatted' = formatNumber(fmtValue, fmtPrecision)
  /\ UNCHANGED <<fmtValue, fmtPrecision, evalVars, mathOw, renderVars,
                 regexVars, appVars>>

NextFormat == Format

SpecFormat == InitFormat /\ [][NextFormat]_vars

(***************************************************************************)
(* useProblemData: the progress and its copy in local storage.             *)
(***************************************************************************)
LeastOrZero(S) == IF S = {} THEN 0 ELSE CHOOSE x \in S : \A y \in S : x <= y

CoreIdle ==
  /\ EvalIdle
  /\ RenderIdle
  /\ FormatIdle
  /\ mathOw = {}

\* Array.prototype.includes
Includes(list, x) == \E k \in 1..Len(list) : list[k] = x

\* list.filter(id => id !== problemId)
Without(list, problemId) ==
  IF list = <<>> THEN <<>>
  ELSE SelectSeq(list, LAMBDA id : id # problemId)

\* a toggle that only ever appends
ToggledAppend(list, problemId) == Append(list, problemId)

\* includes(problemId) ? filter(id => id !== problemId) : [...list, problemId]
Toggled(list, problemId) ==
  IF Includes(list, problemId)
  THEN Without(list, problemId)
  ELSE Append(list, problemId)

\* JSON.stringify of a UserProgress, token by token
JSONstringify(p) ==
  <<"{", "solvedProblems", "[">> \o p.solvedProblems \o
  <<"]", "bookmarkedProblems", "[">> \o p.bookmarkedProblems \o
  <<"]", "lastVisited", p.lastVisited, "}">>

\* the first k >= from with v[k] = "]", 0 when there is none
ListEnd(v, from) == LeastOrZero({k \in from..Len(v) : v[k] = "]"})

ParsedProgress(v, a, b) ==
  IF /\ a # 0 /\ b # 0
     /\ Len(v) = b + 3
     /\ v[a + 1] = "bookmarkedProblems" /\ v[a + 2] = "["
     /\ v[b + 1] = "lastVisited" /\ v[b + 3] = "}"
  THEN [threw |-> FALSE,
        value |-> [solvedProblems |-> SubSeq(v, 4, a - 1),
                   bookmarkedProblems |-> SubSeq(v, a + 3, b - 1),
                   lastVisited |-> v[b + 2]]]
  ELSE [threw |-> TRUE, value |-> defaultProgress]

\* JSON.parse of a stored UserProgress; any other text throws
JSONparse(v) ==
  IF Len(v) >= 3 /\ v[1] = "{" /\ v[2] = "solvedProblems" /\ v[3] = "["
  THEN ParsedProgress(v, ListEnd(v, 4), ListEnd(v, ListEnd(v, 4) + 3))
  ELSE [threw |-> TRUE, value |-> defaultProgress]

loadProgressFromStorage(stored) ==
  IF stored.item /\ stored.value # <<>>
  THEN JSONparse(stored.value).value
  ELSE defaultProgress

\* the ids and the dates the calls are made with
SomeProblemIds == {"p1", "p2", "p3"}

Dates == {"t0", "t1"}

NoDuplicates(list) ==
  \A j, k \in 1..Len(list) : list[j] = list[k] => j = k

\* what local storage can hold when the hook is first used
ProgressStores ==
  {NoItem, Item(<<>>), Item(<<"{">>)} \cup
  {Item(JSONstringify([solvedProblems |-> sp, bookmarkedProblems |-> bp,
                       lastVisited |-> "t0"])) :
     sp \in {<<>>, <<"p1">>, <<"p2", "p1">>}, bp \in {<<>>, <<"p3">>, <<"p1", "p2">>}}

InitProgress ==
  /\ progressStore \in ProgressStores
  /\ progress = loadProgressFromStorage(progressStore)
  /\ toggles = <<>>
  /\ AuthIdle /\ PageIdle /\ TimerIdle
  /\ CoreIdle

\* the latest two calls
Noted(fn, problemId) ==
  IF toggles = <<>>
  THEN <<[fn |-> fn, id |-> problemId, before |-> progress]>>
  ELSE <<toggles[Len(toggles)], [fn |-> fn, id |-> problemId, before |-> progress]>>

saveProgress(newProgress) ==
  /\ progressStore' = Item(JSONstringify(newProgress))
  /\ progress' = newProgress

MarkSolved ==
  /\ \E problemId \in SomeProblemIds, date \in Dates :
       /\ saveProgress([progress EXCEPT
                          !.solvedProblems = Toggled(@, problemId),
                          !.lastVisited = date])
       /\ toggles' = Noted("markSolved", problemId)
  /\ UNCHANGED <<coreVars, authVars, pageVars, timerVars>>

ToggleBookmark ==
  /\ \E problemId \in SomeProblemIds, date \in Dates :
       /\ saveProgress([progress EXCEPT
                          !.bookmarkedProblems = Toggled(@, problemId),
                          !.lastVisited = date])
       /\ toggles' = Noted("toggleBookmark", problemId)
  /\ UNCHANGED <<coreVars, authVars, pageVars, timerVars>>

NextProgress == MarkSolved \/ ToggleBookmark

SpecProgress == InitProgress /\ [][NextProgress]_vars

(***************************************************************************)
(* AuthProvider: the session kept in local storage.  A stored text is      *)
(* [kind |-> "empty"], [kind |-> "malformed"], [kind |-> "null"],          *)
(* [kind |-> "scalar"] or an object text with the source of its            *)
(* authenticated and timestamp members ("absent" when it has none).        *)
(* Times are milliseconds.                                                 *)
(***************************************************************************)
maxAge == 24 * 60 * 60 * 1000

\* a Date.now() at which the page is first loaded
T0 == 10 * maxAge

\* the times the clock is read at: up to MaxElapse steps of one millisecond
\* and of a millisecond less than maxAge after T0
MaxElapse == 2

Clock == {T0 + a + b * (maxAge - 1) : a, b \in 0..MaxElapse}

ObjectText(authenticated, timestamp) ==
  [kind |-> "object", authenticated |-> authenticated, timestamp |-> timestamp]

\* JSON.stringify({authenticated: true, timestamp: Date.now()})
AuthStringify(timestamp) == ObjectText("true", [src |-> "number", n |-> timestamp])

\* JSON.parse: throws on a text that is no JSON, else the value
AuthParse(t) ==
  CASE t.kind \in {"empty", "malformed"} -> [threw |-> TRUE, value |-> [k |-> "undef"]]
    [] t.kind = "null" -> [threw |-> FALSE, value |-> [k |-> "null"]]
    [] t.kind = "scalar" -> [threw |-> FALSE, value |-> [k |-> "scalar"]]
    [] OTHER -> [threw |-> FALSE,
                 value |-> [k |-> "object", authenticated |-> t.authenticated,
                            timestamp |-> t.timestamp]]

\* ToNumber of a member read from the parsed value: undefined and a text
\* that is no number give NaN, null gives 0, true gives 1
NumberOf(m) ==
  CASE m.src = "number" -> [nan |-> FALSE, n |-> m.n]
    [] m.src = "string" -> [nan |-> FALSE, n |-> m.n]  \* the digits of n
    [] m.src = "null" -> [nan |-> FALSE, n |-> 0]
    [] m.src = "true" -> [nan |-> FALSE, n |-> 1]
    [] OTHER -> [nan |-> TRUE, n |-> 0]                \* "absent", "text"

\* Date.now() - authData.timestamp
SessionAge(at, authData) ==
  [nan |-> NumberOf(authData.timestamp).nan,
   n |-> at - NumberOf(authData.timestamp).n]

\* sessionAge < maxAge && authData.authenticated === true
StillValid(at, authData) ==
  /\ ~SessionAge(at, authData).nan /\ SessionAge(at, authData).n < maxAge
  /\ authData.authenticated = "true"

\* the try block of checkAuth: "valid", "remove" (the else branch) or
\* "caught" (authData.timestamp on null throws, as JSON.parse may)
TryCheck(at, parse) ==
  CASE parse.threw -> "caught"
    [] parse.value.k = "null" -> "caught"
    [] parse.value.k = "scalar" -> "remove"
    [] OTHER -> IF StillValid(at, parse.value) THEN "valid" ELSE "remove"

\* checkAuth of the mount effect; stored is localStorage.getItem(...)
checkAuth(at, stored) ==
  IF stored.item /\ stored.value.kind # "empty"
  THEN [found |-> TryCheck(at, AuthParse(stored.value)),
        isAuthenticated |-> TryCheck(at, AuthParse(stored.value)) = "valid",
        store |-> IF TryCheck(at, AuthParse(stored.value)) = "valid"
                  THEN stored ELSE NoItem]
  ELSE [found |-> "nothing", isAuthenticated |-> FALSE, store |-> stored]

\* the timestamps a stored session can carry at T0
StoredTimestamps ==
  {[src |-> "number", n |-> T0 - d] : d \in {0, 1, maxAge - 1, maxAge, maxAge + 1}}
    \cup {[src |-> "number", n |-> T0 + 1000], [src |-> "string", n |-> T0 - 1],
          [src |-> "null"], [src |-> "true"], [src |-> "text"], [src |-> "absent"]}

AuthStores ==
  {NoItem} \cup
  {Item([kind |-> k]) : k \in {"empty", "malformed", "null", "scalar"}} \cup
  {Item(ObjectText(a, t)) :
     a \in {"true", "false", "\"true\"", "1", "absent"}, t \in StoredTimestamps}

InitAuth ==
  /\ authStore \in AuthStores
  /\ isAuthenticated = FALSE
  /\ isLoading = TRUE
  /\ now = T0
  /\ authSeen = "unmounted"
  /\ ProgressIdle /\ PageIdle /\ TimerIdle
  /\ CoreIdle

\* the effect of AuthProvider, run once after it mounted
CheckAuth ==
  /\ authSeen = "unmounted"
  /\ authSeen' = checkAuth(now, authStore).found
  /\ isAuthenticated' = (isAuthenticated \/ checkAuth(now, authStore).isAuthenticated)
  /\ authStore' = checkAuth(now, authStore).store
  /\ isLoading' = FALSE
  /\ UNCHANGED <<now, coreVars, progressVars, pageVars, timerVars>>

\* the digest of the password; "secret" stands for the one that hashes to
\* PASSWORD_HASH
PASSWORD_HASH == "cdb4ee2a"

sha256(message) == IF message = "secret" THEN "cdb4ee2a" ELSE "9f86d081"

\* login(password), from the login page; digestFails: crypto.subtle throws
Login ==
  /\ authSeen # "unmounted" /\ ~isAuthenticated
  /\ \E password \in {"secret", "guess"}, digestFails \in BOOLEAN :
       IF ~digestFails /\ sha256(password) = PASSWORD_HASH
       THEN /\ authStore' = Item(AuthStringify(now))
            /\ isAuthenticated' = TRUE
       ELSE UNCHANGED <<authStore, isAuthenticated>>
  /\ UNCHANGED <<isLoading, now, authSeen, coreVars, progressVars, pageVars,
                 timerVars>>

\* logout(), from the header of the main page
Logout ==
  /\ isAuthenticated
  /\ authStore' = NoItem
  /\ isAuthenticated' = FALSE
  /\ UNCHANGED <<isLoading, now, authSeen, coreVars, progressVars, pageVars,
                 timerVars>>

\* time passes
Elapse ==
  /\ \E d \in {1, maxAge - 1} : now + d \in Clock /\ now' = now + d
  /\ UNCHANGED <<authStore, isAuthenticated, isLoading, authSeen, coreVars,
                 progressVars, pageVars, timerVars>>

\* the page is loaded again: the provider starts from its initial state
Reload ==
  /\ authSeen # "unmounted"
  /\ isAuthenticated' = FALSE
  /\ isLoading' = TRUE
  /\ authSeen' = "unmounted"
  /\ UNCHANGED <<authStore, now, coreVars, progressVars, pageVars, timerVars>>

NextAuth == CheckAuth \/ Login \/ Logout \/ Elapse \/ Reload

SpecAuth == InitAuth /\ [][NextAuth]_vars

(***************************************************************************)
(* MainApp: the lists, the pages and the exam mode.  A list of problems is *)
(* the sequence of their ids.                                              *)
(***************************************************************************)
\* the problems the hook loaded, in the order of the data files
problems == <<"p1", "p2", "p3", "p4", "p5", "p6">>

Problem(title, code, codeSection, difficulty, category, subcategory, problem) ==
  [title |-> title, code |-> code, codeSection |-> codeSection,
   difficulty |-> difficulty, category |-> category,
   subcategory |-> subcategory, problem |-> problem]

ProblemOf(id) ==
  CASE id = "p1" -> Problem(<<"B", "m">>, <<"A", "C">>, <<"9">>, "Moderate",
                            <<"d">>, "Beams", <<"w">>)
    [] id = "p2" -> Problem(<<"C", "l">>, <<"A", "C">>, <<"1", "0">>, "Difficult",
                            <<"d">>, "Columns", <<"b">>)
    [] id = "p3" -> Problem(<<"W">>, <<"A", "S">>, <<"2", "6">>, "Moderate",
                            <<"l">>, "Wind", <<"q">>)
    [] id = "p4" -> Problem(<<"S">>, <<"A", "S">>, <<"7">>, "Very Difficult",
                            <<"l">>, "Snow", <<"b", "m">>)
    [] id = "p5" -> Problem(<<"b", "m">>, <<"A", "I">>, <<"F">>, "Difficult",
                            <<"d">>, "Beams", <<"x">>)
    [] OTHER -> Problem(<<"F">>, <<"A", "C">>, <<"1", "3">>, "Moderate",
                        <<"t">>, "Formwork", <<"y">>)

PAGE_OPTIONS == {5, 10, 20, 50}

durationMinutes == 60

ToLower(c) ==
  IF c \in Upper THEN LowerSeq[CHOOSE k \in DOMAIN UpperSeq : UpperSeq[k] = c]
  ELSE c

toLowerCase(str) == [k \in DOMAIN str |-> ToLower(str[k])]

\* String.prototype.includes
StrIncludes(str, part) == \E q \in 1..(Len(str) + 1) : MatchAt(str, q, part)

Keep(list, Pass(_)) == IF list = <<>> THEN <<>> ELSE SelectSeq(list, Pass)

\* the predicate of problems.filter in useProblemData
PassesFilters(f, pr) ==
  /\ f.categories # {} => pr.category \in f.categories
  /\ f.subcategories # {} => pr.subcategory \in f.subcategories
  /\ f.difficulties # {} => pr.difficulty \in f.difficulties
  /\ f.codes # {} => pr.code \in f.codes

filteredProblems ==
  Keep(problems, LAMBDA id : PassesFilters(filters, ProblemOf(id)))

\* the predicate of filteredProblems.filter in MainApp
MatchesQuery(query, pr) ==
  \/ StrIncludes(toLowerCase(pr.title), query)
  \/ StrIncludes(toLowerCase(pr.category), query)
  \/ StrIncludes(toLowerCase(pr.code), query)
  \/ StrIncludes(toLowerCase(pr.problem), query)
  \/ StrIncludes(toLowerCase(pr.codeSection), query)

searchedProblems ==
  IF Trim(searchQuery) = <<>> THEN filteredProblems
  ELSE Keep(filteredProblems,
            LAMBDA id : MatchesQuery(toLowerCase(searchQuery), ProblemOf(id)))

displayedProblems ==
  CASE viewMode = "bookmarks" ->
         Keep(problems, LAMBDA id : Includes(progress.bookmarkedProblems, id))
    [] viewMode = "exam" ->
         IF Len(shuffledProblems) > 0 THEN shuffledProblems ELSE searchedProblems
    [] OTHER -> searchedProblems

Max(a, b) == IF a >= b THEN a ELSE b

Min(a, b) == IF a <= b THEN a ELSE b

\* Math.ceil(n / d) for n >= 0 and d > 0
CeilDiv(n, d) == (n + d - 1) \div d

totalPages == Max(1, CeilDiv(Len(displayedProblems), problemsPerPage))

\* the page shown, were currentPage taken as it is
unsafeCurrentPage == currentPage

safeCurrentPage == Min(currentPage, totalPages)

startIndex == (safeCurrentPage - 1) * problemsPerPage

endIndex == startIndex + problemsPerPage

\* Array.prototype.slice(a, b) with 0 <= a
Slice(list, a, b) == SubSeq(list, a + 1, Min(b, Len(list)))

pageSlice == Slice(displayedProblems, startIndex, endIndex)

paginatedProblems == IF isExamMode THEN displayedProblems ELSE pageSlice

\* the branch of the page with the side bar, the search bar and the list
InMainBranch == viewMode \notin {"stats", "bookmarks"}

Reversed(list) == [k \in DOMAIN list |-> list[Len(list) + 1 - k]]

\* orders that sort(() => Math.random() - 0.5) can leave
Shuffles(list) == {list, Reversed(list)}

\* <Timer> is rendered in the main branch while isExamMode; a Timer that
\* mounts starts at durationMinutes * 60
TimerFollows(rendersTimer) ==
  IF rendersTimer
  THEN /\ timerMounted' = TRUE
       /\ timeRemaining' = IF timerMounted THEN timeRemaining
                           ELSE durationMinutes * 60
  ELSE /\ timerMounted' = FALSE
       /\ UNCHANGED timeRemaining

\* the filters and the queries the panel and the search bar hand over
FilterChoices ==
  { NoFilters,
    [NoFilters EXCEPT !.categories = {<<"d">>, <<"l">>}, !.subcategories = {"Beams"}],
    [NoFilters EXCEPT !.codes = {<<"A", "S">>}],
    [NoFilters EXCEPT !.categories = {<<"t">>}, !.difficulties = {"Difficult"}] }

Queries == {<<>>, <<" ">>, <<"B", "m">>, <<"z">>}

PageArguments == 0..3

\* the sizes the per-page select is set to
SomePageOptions == {n \in PAGE_OPTIONS : n <= 10}

\* the progress the page starts with
PageProgress ==
  {defaultProgress, [defaultProgress EXCEPT !.bookmarkedProblems = <<"p5", "p2">>]}

InitPage ==
  /\ progress \in PageProgress
  /\ progressStore = IF progress = defaultProgress THEN NoItem
                     ELSE Item(JSONstringify(progress))
  /\ toggles = <<>>
  /\ PageIdle /\ TimerIdle
  /\ AuthIdle
  /\ CoreIdle

\* onFilterChange={setFilters}
SetFilters ==
  /\ InMainBranch
  /\ \E newFilters \in FilterChoices : filters' = newFilters
  /\ UNCHANGED <<searchQuery, viewMode, currentProblemIndex, shuffledProblems,
                 isExamMode, timerRunning, currentPage, problemsPerPage,
                 timerVars, progressVars, authVars, coreVars>>

\* onChange of the search box, and clearSearch
SetSearchQuery ==
  /\ InMainBranch
  /\ \E value \in Queries : searchQuery' = value
  /\ UNCHANGED <<filters, viewMode, currentProblemIndex, shuffledProblems,
                 isExamMode, timerRunning, currentPage, problemsPerPage,
                 timerVars, progressVars, authVars, coreVars>>

\* onValueChange of the tabs
SetViewMode ==
  /\ \E v \in {"practice", "bookmarks", "stats"} :
       /\ viewMode' = v
       /\ TimerFollows(isExamMode /\ v \notin {"stats", "bookmarks"})
  /\ UNCHANGED <<filters, searchQuery, currentProblemIndex, shuffledProblems,
                 isExamMode, timerRunning, currentPage, problemsPerPage,
                 progressVars, authVars, coreVars>>

shuffleProblems ==
  /\ shuffledProblems' \in Shuffles(filteredProblems)
  /\ currentProblemIndex' = 0

ShuffleProblems ==
  /\ InMainBranch
  /\ shuffleProblems
  /\ UNCHANGED <<filters, searchQuery, viewMode, isExamMode, timerRunning,
                 currentPage, problemsPerPage, timerVars, progressVars,
                 authVars, coreVars>>

StartExamMode ==
  /\ InMainBranch /\ ~isExamMode
  /\ isExamMode' = TRUE
  /\ shuffleProblems
  /\ timerRunning' = TRUE
  /\ viewMode' = "exam"
  /\ TimerFollows(TRUE)
  /\ UNCHANGED <<filters, searchQuery, currentPage, problemsPerPage,
                 progressVars, authVars, coreVars>>

EndExamMode ==
  /\ InMainBranch /\ isExamMode
  /\ isExamMode' = FALSE
  /\ timerRunning' = FALSE
  /\ shuffledProblems' = <<>>
  /\ viewMode' = "practice"
  /\ TimerFollows(FALSE)
  /\ UNCHANGED <<filters, searchQuery, currentProblemIndex, currentPage,
                 problemsPerPage, progressVars, authVars, coreVars>>

GoToNext ==
  /\ InMainBranch /\ isExamMode
  /\ currentProblemIndex' =
       IF currentProblemIndex < Len(displayedProblems) - 1
       THEN currentProblemIndex + 1 ELSE currentProblemIndex
  /\ UNCHANGED <<filters, searchQuery, viewMode, shuffledProblems, isExamMode,
                 timerRunning, currentPage, problemsPerPage, timerVars,
                 progressVars, authVars, coreVars>>

GoToPrev ==
  /\ InMainBranch /\ isExamMode
  /\ currentProblemIndex' =
       IF currentProblemIndex > 0
       THEN currentProblemIndex - 1 ELSE currentProblemIndex
  /\ UNCHANGED <<filters, searchQuery, viewMode, shuffledProblems, isExamMode,
                 timerRunning, currentPage, problemsPerPage, timerVars,
                 progressVars, authVars, coreVars>>

\* setCurrentPage(Math.max(1, Math.min(page, totalPages)))
goToPage(page) ==
  /\ currentPage' = Max(1, Min(page, totalPages))
  /\ UNCHANGED <<filters, searchQuery, viewMode, currentProblemIndex,
                 shuffledProblems, isExamMode, timerRunning, problemsPerPage,
                 timerVars, progressVars, authVars, coreVars>>

GoToPage == \E page \in PageArguments : goToPage(page)

GoToNextPage ==
  /\ InMainBranch /\ ~isExamMode /\ totalPages > 1
  /\ IF safeCurrentPage < totalPages THEN goToPage(safeCurrentPage + 1)
     ELSE UNCHANGED vars

GoToPrevPage ==
  /\ InMainBranch /\ ~isExamMode /\ totalPages > 1
  /\ IF safeCurrentPage > 1 THEN goToPage(safeCurrentPage - 1)
     ELSE UNCHANGED vars

\* onValueChange of the per-page select
SetProblemsPerPage ==
  /\ InMainBranch
  /\ \E val \in SomePageOptions : problemsPerPage' = val
  /\ currentPage' = 1
  /\ UNCHANGED <<filters, searchQuery, viewMode, currentProblemIndex,
                 shuffledProblems, isExamMode, timerRunning, timerVars,
                 progressVars, authVars, coreVars>>

NextPage ==
  \/ SetFilters \/ SetSearchQuery \/ SetViewMode
  \/ ShuffleProblems \/ StartExamMode \/ EndExamMode
  \/ GoToNext \/ GoToPrev
  \/ GoToPage \/ GoToNextPage \/ GoToPrevPage \/ SetProblemsPerPage

SpecPage == InitPage /\ [][NextPage]_vars

(***************************************************************************)
(* Timer: the countdown of the exam mode.                                  *)
(***************************************************************************)
\* the callback of setInterval; the effect sets the interval only while
\* isRunning && timeRemaining > 0
Tick ==
  /\ timerMounted /\ timerRunning /\ timeRemaining > 0
  /\ IF timeRemaining <= 1
     THEN timeRemaining' = 0 /\ timerRunning' = FALSE   \* onTimeUp
     ELSE timeRemaining' = timeRemaining - 1 /\ UNCHANGED timerRunning
  /\ UNCHANGED <<timerMounted, filters, searchQuery, viewMode,
                 currentProblemIndex, shuffledProblems, isExamMode,
                 currentPage, problemsPerPage, progressVars, authVars, coreVars>>

\* the pause / play button, disabled at timeRemaining === 0
TimerToggle ==
  /\ timerMounted /\ timeRemaining # 0
  /\ timerRunning' = ~timerRunning
  /\ UNCHANGED <<timerVars, filters, searchQuery, viewMode,
                 currentProblemIndex, shuffledProblems, isExamMode,
                 currentPage, problemsPerPage, progressVars, authVars, coreVars>>

\* the reset button
TimerReset ==
  /\ timerMounted
  /\ timeRemaining' = durationMinutes * 60
  /\ timerRunning' = FALSE
  /\ UNCHANGED <<timerMounted, filters, searchQuery, viewMode,
                 currentProblemIndex, shuffledProblems, isExamMode,
                 currentPage, problemsPerPage, progressVars, authVars, coreVars>>

NextTimer ==
  \/ StartExamMode \/ EndExamMode \/ SetViewMode
  \/ Tick \/ TimerToggle \/ TimerReset

SpecTimer == InitPage /\ [][NextTimer]_vars

(***************************************************************************)
(* What the checks rest on: no evaluation met a form outside the modelled  *)
(* fragment of the script engine.                                          *)
(***************************************************************************)
NoUnmodelled == ~result.um

(***************************************************************************)
(* Properties of the renderer.                                             *)
(***************************************************************************)
\* the characters of the input a segment stands for
SourceSpan(seg) ==
  CASE seg.type = "latex-block" -> <<"$", "$">> \o seg.content \o <<"$", "$">>
    [] seg.type = "latex-inline" -> <<"$">> \o seg.content \o <<"$">>
    [] seg.type = "math" -> <<"{">> \o seg.content \o <<"}">>
    [] OTHER -> seg.content

Spans == [k \in DOMAIN segments |-> SourceSpan(segments[k])]

Range(f) == {f[x] : x \in DOMAIN f}

\* the offset after segment k
EndOfSegment(k) == IF k < Len(segments) THEN starts[k + 1] ELSE i

IsTypeset(seg) == seg.type \in {"latex-block", "latex-inline"}

\* how far the call is from its end, at most
Remaining ==
  2 * (Len(text) - i) + (Len(segments) - Len(pieces))
  + (CASE rpc = "scan" -> 3 [] rpc = "process" -> 2 [] rpc = "returned" -> 1
       [] OTHER -> 0)

\* C1: render is total: whatever the input, and whichever typesetting or
\* evaluation fails, no exception leaves processTextRobust or MathText: the
\* call is always at a step of the scan, of the loop over the segments, at
\* the return or past it, every segment is of a type the loop handles, and
\* every step brings the call nearer to its end.
C1_RenderTotal ==
  /\ [](rpc \in {"scan", "process", "returned", "done"})
  /\ [](\A k \in DOMAIN segments :
         segments[k].type \in {"text", "latex-block", "latex-inline", "math"})
  /\ [](Remaining >= 0)
  /\ [][Remaining' < Remaining]_vars

\* a call that ended although the typesetter failed on one span and the
\* evaluator on another
C1_Witness ==
  /\ rpc = "done"
  /\ \E k \in DOMAIN pieces : IsTypeset(segments[k]) /\ pieces[k].failed
  /\ \E k \in DOMAIN pieces : segments[k].type = "math" /\ pieces[k].failed

\* C2: the segments partition the input: in order, without gap or overlap,
\* the source spans of the segments scanned so far make up the input up to
\* the scanner's offset, and the whole input once the scan has ended.
C2_Partition ==
  /\ Flatten(Spans) = SubSeq(text, 1, i)
  /\ \A k \in DOMAIN segments :
       /\ starts[k] = (IF k = 1 THEN 0 ELSE EndOfSegment(k - 1))
       /\ EndOfSegment(k) = starts[k] + Len(Spans[k])
       /\ Spans[k] = Substring(text, starts[k], EndOfSegment(k))
  /\ rpc # "scan" => i = Len(text)

\* a finished scan that found a typeset span, an expression and text
C2_Witness ==
  /\ rpc = "process"
  /\ \E k \in DOMAIN segments : IsTypeset(segments[k])
  /\ \E k \in DOMAIN segments : segments[k].type = "math"
  /\ \E k \in DOMAIN segments : segments[k].type = "text"

NestingExample == <<"$","x","_","{","i","}","$"," ","a","n","d"," ","{","2","*","3","}">>

\* C4: a closed typeset span is opaque: no math segment opens or closes
\* inside the span of a typeset segment, what the typesetter is given is
\* the source between the delimiters, and in the example
\* "$x_{i}$ and {2*3}" the only math segment is {2*3}.
C4_TypesetOpaque ==
  /\ \A k \in DOMAIN segments : IsTypeset(segments[k]) =>
       /\ \A m \in DOMAIN segments : segments[m].type = "math" =>
            \/ starts[m] + Len(Spans[m]) <= starts[k]
            \/ starts[m] >= starts[k] + Len(Spans[k])
       /\ LET d == IF segments[k].type = "latex-block" THEN 2 ELSE 1
          IN segments[k].content =
               Substring(text, starts[k] + d, starts[k] + Len(Spans[k]) - d)
       /\ k \in DOMAIN pieces /\ ~pieces[k].failed =>
            pieces[k].out =
              renderToString(segments[k].content,
                             segments[k].type = "latex-block")
  /\ text = NestingExample /\ rpc # "scan" =>
       \A m \in DOMAIN segments :
         segments[m].type = "math" => segments[m].content = <<"2", "*", "3">>

\* the example rendered: a typeset span that holds braces, and an expression
C4_Witness ==
  /\ rpc = "done" /\ text = NestingExample
  /\ \E k \in DOMAIN segments :
       /\ segments[k].type = "latex-inline" /\ "{" \in Range(segments[k].content)
       /\ ~pieces[k].failed
  /\ \E m \in DOMAIN segments : segments[m].type = "math"

\* the number of positions in a..b that hold the character c
RECURSIVE CountIn(_, _, _, _)
CountIn(str, a, b, c) ==
  IF a > b THEN 0
  ELSE (IF At(str, a) = c THEN 1 ELSE 0) + CountIn(str, a + 1, b, c)

\* the length of the run of "$" that ends at offset j and lies after s
RECURSIVE DollarsBack(_, _, _)
DollarsBack(str, j, s) ==
  IF j > s /\ At(str, j) = "$" THEN 1 + DollarsBack(str, j - 1, s) ELSE 0

\* the capture opened at offset s has no closing delimiter: no "$$" after
\* the opening one; no "$" after the opening one that is not half of a
\* "$$"; no "}" that balances the opening "{"
Unterminated(s) ==
  CASE IsBlockOpen(text, s) ->
         ~\E j \in (s + 2)..(Len(text) - 2) :
            At(text, j) = "$" /\ At(text, j + 1) = "$"
    [] IsInlineOpen(text, s) ->
         ~\E j \in (s + 1)..(Len(text) - 1) :
            /\ At(text, j) = "$" /\ At(text, j + 1) # "$"
            /\ DollarsBack(text, j, s) % 2 = 1
    [] IsMathOpen(text, s) ->
         ~\E j \in (s + 1)..(Len(text) - 1) :
            /\ At(text, j) = "}"
            /\ CountIn(text, s, j, "{") = CountIn(text, s, j, "}")
    [] OTHER -> FALSE

UnterminatedExample == <<"v","a","l","u","e"," ","i","s"," ","{","2","+","2">>

\* C5: a capture that finds no closing delimiter becomes one segment of
\* text that holds the opening character alone, and the scan resumes on the
\* next character; the text "value is {2+2" is rendered unchanged.
C5_UnterminatedFallback ==
  /\ \A k \in DOMAIN segments : Unterminated(starts[k]) =>
       /\ segments[k] = Segment("text", <<At(text, starts[k])>>)
       /\ EndOfSegment(k) = starts[k] + 1
  /\ \A k \in DOMAIN segments : ~IsTypeset(segments[k]) /\ segments[k].type # "math" =>
       segments[k].type = "text" /\ Len(segments[k].content) = 1
  /\ text = UnterminatedExample /\ rpc = "done" => rendered = text

\* an unterminated capture after which a well-formed span was still found
C5_Witness ==
  /\ rpc = "done"
  /\ \E k \in DOMAIN segments :
       /\ Unterminated(starts[k])
       /\ \E m \in DOMAIN segments : m > k /\ segments[m].type # "text"

\* C6: a math segment whose evaluation fails is rendered as its source,
\* "{" content "}", character for character, and no exception leaves the
\* renderer.
C6_EvaluatorFailureFallback ==
  /\ rpc # "threw"
  /\ \A k \in DOMAIN pieces :
       segments[k].type = "math" /\ pieces[k].failed =>
         /\ pieces[k].out = <<"{">> \o segments[k].content \o <<"}">>
         /\ pieces[k].out =
              Substring(text, starts[k], starts[k] + Len(segments[k].content) + 2)

\* a failed expression that holds a brace and a line break
C6_Witness ==
  /\ rpc = "done"
  /\ \E k \in DOMAIN pieces :
       /\ segments[k].type = "math" /\ pieces[k].failed
       /\ {"{", "\n"} \subseteq Range(segments[k].content)

(***************************************************************************)
(* Properties of the evaluator.                                            *)
(***************************************************************************)
AllowedNames == MATH_FUNCTIONS \cup MATH_CONSTANTS

\* the identifiers written in expr: its runs of word characters that do not
\* start with a digit
Identifiers(expr) ==
  {w \in Range(SplitWords(expr, 1)) : IsWordChar(w[1]) /\ w[1] \notin Digits}

\* expr names something that is neither on the allow-list, in any case of
\* letters, nor the Math prefix itself
HasForeignIdentifier(expr) ==
  \E w \in Identifiers(expr) :
    /\ w # <<"M", "a", "t", "h">>
    /\ UpperStr(w) \notin {UpperStr(a) : a \in AllowedNames}

\* C3: evaluate throws for every input that holds an identifier outside the
\* allow-list, bare or after the Math. prefix: no such input returns a
\* number.
C3_ForeignIdentifierRejected ==
  calls >= 1 /\ HasForeignIdentifier(expression) => result.threw

\* expressions of conventional arithmetic with their values
ConventionalCases ==
  { <<<<"2","^","3"," ","+"," ","s","q","r","t","(","1","6",")">>, 12>>,
    <<<<"-","2","^","2">>, -4>>,
    <<<<"(","-","2",")","^","2">>, 4>>,
    <<<<"1","e","3">>, 1000>>,
    <<<<"1","e","3","+","1","e","3">>, 2000>>,
    <<<<"7","%","3">>, 1>>,
    <<<<"1",".","5","*","2">>, 3>>,
    <<<<"2","^","3","^","2">>, 512>>,
    <<<<"m","a","x","(","2",",","3",")">>, 3>>,
    <<<<"a","b","s","(","-","3",")">>, 3>>,
    <<<<"p","o","w","(","2",",","1","0",")">>, 1024>> }

\* C7: a well-formed expression over the allowed tokens evaluates to its
\* conventional value, ^ being exponentiation; evaluate("2^3 + sqrt(16)")
\* is 12.
C7_ConventionalValue ==
  calls >= 1 =>
    \A c \in ConventionalCases :
      expression = c[1] => ~result.threw /\ result.value = QInt(c[2])

\* C8: each of the eight constants, written bare, is rewritten to its
\* namespaced form, passes the safety check and evaluates to the constant.
C8_ConstantsEvaluate ==
  calls >= 1 /\ expression \in MATH_CONSTANTS =>
    /\ prepareExpression(expression) = MathDot \o expression
    /\ isSafeExpression(prepareExpression(expression))
    /\ ~result.threw
    /\ result.value = Irr(1, expression)

\* only blanks, or nothing at all
IsBlank(expr) == \A k \in DOMAIN expr : IsSpace(expr[k])

\* C9: evaluate throws on an empty or blank expression and whenever what
\* the expression computes is NaN, an infinity or not a number; what it
\* returns is what was computed, and a finite number.
C9_RejectsInvalidResults ==
  calls >= 1 =>
    /\ IsBlank(expression) => result.threw
    /\ result.raw.c = "normal" /\ ~IsFiniteNumber(result.raw.v) => result.threw
    /\ ~result.threw =>
         /\ result.raw.c = "normal" /\ result.value = result.raw.v
         /\ IsFiniteNumber(result.value)

\* a call that computed an infinity and threw
C9_Witness ==
  /\ calls >= 1
  /\ result.raw.c = "normal" /\ result.raw.v \in {PInf, NInf}
  /\ result.threw

\* C10: evaluate is a function of its input string: two calls with the same
\* string end alike and return the same number, whatever was drawn or
\* evaluated before.
C10_Deterministic ==
  calls = 2 =>
    /\ previous.threw = result.threw
    /\ previous.value = result.value

(***************************************************************************)
(* Properties of formatNumber.  The text it returns is read back as a      *)
(* decimal and compared with the number it was given.                      *)
(***************************************************************************)
\* a/b <= c/d for naturals a, c and positive b, d, without multiplying
RECURSIVE FracLeq(_, _, _, _)
FracLeq(a, b, c, d) ==
  IF a \div b # c \div d THEN a \div b < c \div d
  ELSE IF a % b = 0 THEN TRUE
  ELSE IF c % d = 0 THEN FALSE
  ELSE FracLeq(d, c % d, b, a % b)

\* the text without its sign
Unsigned(str) == IF str # <<>> /\ str[1] = "-" THEN Tail(str) ELSE str

\* the position of the decimal point in str, Len(str) + 1 without one
PointOf(str) ==
  IF \E k \in DOMAIN str : str[k] = "."
  THEN CHOOSE k \in DOMAIN str : str[k] = "." /\ \A m \in 1..(k - 1) : str[m] # "."
  ELSE Len(str) + 1

IntegerPart(str) == SubSeq(Unsigned(str), 1, PointOf(Unsigned(str)) - 1)

FractionPart(str) ==
  SubSeq(Unsigned(str), PointOf(Unsigned(str)) + 1, Len(Unsigned(str)))

\* digits, with at most one point that has digits on both sides, the
\* fraction not ending in 0 and the integer part not starting with a
\* needless 0
IsPlainDecimal(str) ==
  /\ IntegerPart(str) # <<>>
  /\ \A k \in DOMAIN IntegerPart(str) : IntegerPart(str)[k] \in Digits
  /\ \A k \in DOMAIN FractionPart(str) : FractionPart(str)[k] \in Digits
  /\ PointOf(Unsigned(str)) <= Len(Unsigned(str)) =>
       /\ FractionPart(str) # <<>>
       /\ FractionPart(str)[Len(FractionPart(str))] # "0"
  /\ Len(IntegerPart(str)) > 1 => IntegerPart(str)[1] # "0"

\* d.ddd e+N or d.ddd e-N with precision digits after the point
IsScientific(str, precision) ==
  /\ Len(Unsigned(str)) >= precision + 5
  /\ Unsigned(str)[1] \in Digits \ {"0"}
  /\ Unsigned(str)[2] = "."
  /\ \A k \in 3..(precision + 2) : Unsigned(str)[k] \in Digits
  /\ Unsigned(str)[precision + 3] = "e"
  /\ Unsigned(str)[precision + 4] \in {"+", "-"}
  /\ \A k \in (precision + 5)..Len(Unsigned(str)) : Unsigned(str)[k] \in Digits

\* 0 < |v| < 1e-4 or |v| >= 1e9
InScientificRange(v) ==
  /\ v.k = "q" /\ v.n # 0
  /\ \/ Abs(v.n) < (v.d + 9999) \div 10000
     \/ v.d <= 2 /\ Abs(v.n) >= 1000000000 * v.d

IsZeroValue(v) == v = NegZero \/ (v.k = "q" /\ v.n = 0)

\* C11: format(value) is in scientific notation exactly when
\* 0 < |value| < 1e-4 or |value| >= 1e9; every other value, those just below
\* 1e9 that round up to it and 0 and -0 included, is written as a plain
\* decimal, and 0 and -0 as "0".
C11_ScientificRange ==
  formatted # <<>> =>
    /\ InScientificRange(fmtValue) <=> IsScientific(formatted, fmtPrecision)
    /\ ~InScientificRange(fmtValue) <=> IsPlainDecimal(formatted)
    /\ IsZeroValue(fmtValue) => formatted = <<"0">>

\* 999960000, below 1e9, rounds to 1e9 and is still written in full
C11_Witness ==
  /\ fmtValue = QInt(999960000) /\ fmtPrecision = 4
  /\ formatted = <<"1","0","0","0","0","0","0","0","0","0">>

\* the decimal exponent of n/d > 0: the e with 10^e <= n/d < 10^(e+1)
RECURSIVE Exponent10(_, _)
Exponent10(n, d) ==
  IF n < d THEN Exponent10(n * 10, d) - 1
  ELSE IF n \div d >= 10 THEN Exponent10(n \div 10, d) + 1
  ELSE 0

\* the digits of str as one natural number, and how many follow the point
DigitsOf(str) == DigitsValue(IntegerPart(str) \o FractionPart(str), 10)

\* str is n/d > 0 rounded to the nearest multiple of 10^g
NearestOnGrid(str, n, d, g) ==
  IF g >= 0
  THEN /\ FractionPart(str) = <<>>
       /\ DigitsOf(str) % IntPow(10, g) = 0
       /\ FracLeq(2 * DigitsOf(str) - IntPow(10, g), 1, 2 * n, d)
       /\ FracLeq(2 * n, d, 2 * DigitsOf(str) + IntPow(10, g), 1)
  ELSE /\ Len(FractionPart(str)) <= -g
       /\ FracLeq(2 * DigitsOf(str) * IntPow(10, -g - Len(FractionPart(str))) - 1,
                  IntPow(10, -g), 2 * n, d)
       /\ FracLeq(2 * n, d,
                  2 * DigitsOf(str) * IntPow(10, -g - Len(FractionPart(str))) + 1,
                  IntPow(10, -g))

\* str is the plain decimal of v rounded to precision significant digits
IsRoundedDecimal(str, v, precision) ==
  /\ IsPlainDecimal(str)
  /\ (str[1] = "-") <=> (v.n < 0)
  /\ NearestOnGrid(str, Abs(v.n), v.d,
                   Exponent10(Abs(v.n), v.d) - precision + 1)

\* C12: outside the ranges of the scientific notation, format(value,
\* precision) is the decimal of value rounded to precision significant
\* digits, with no trailing zero; format(12.3456789, 4) is "12.35".
C12_RoundedSignificant ==
  formatted # <<>> =>
    /\ fmtValue.k = "q" /\ fmtValue.n # 0 /\ ~InScientificRange(fmtValue) =>
         IsRoundedDecimal(formatted, fmtValue, fmtPrecision)
    /\ fmtValue = Q(123456789, 10000000) /\ fmtPrecision = 4 =>
         formatted = <<"1", "2", ".", "3", "5">>

\* 0.012345 to two significant digits: fewer digits than decimal places
C12_Witness ==
  /\ fmtValue = Q(12345, 1000000) /\ fmtPrecision = 2
  /\ formatted = <<"0", ".", "0", "1", "2">>

\* the input holds no "$" and no "{"
IsPlain(str) == "$" \notin Range(str) /\ "{" \notin Range(str)

\* C13: an input without "$" and without "{" is rendered as itself, each
\* line break replaced by <br/> and every other character, a lone "}"
\* included, unchanged and in its place.
C13_PassThrough ==
  rpc = "done" /\ IsPlain(text) =>
    /\ Len(rendered) = Len(text)
    /\ \A k \in DOMAIN text :
         rendered[k] = (IF text[k] = "\n" THEN "<br/>" ELSE text[k])

\* a rendered input with two line breaks and a lone "}"
C13_Witness ==
  /\ rpc = "done" /\ IsPlain(text)
  /\ "}" \in Range(text)
  /\ \E k, m \in DOMAIN text : k < m /\ text[k] = "\n" /\ text[m] = "\n"

\* what a segment may be rendered as when it is rendered on its own, with
\* the evaluator as it is before any call
RenderingsAlone(seg) ==
  CASE seg.type = "text" -> {RenderText(seg.content).out}
    [] seg.type = "latex-block" ->
         {RenderBlock(seg.content, t).out : t \in BOOLEAN}
    [] seg.type = "latex-inline" ->
         {RenderInline(seg.content, t).out : t \in BOOLEAN}
    [] OTHER ->
         {RenderMath(seg.content,
                     evaluateMathExpression(seg.content, {}, r)).out :
            r \in RandomDraws}

AdjacentExample ==
  <<"$","$","a","+","b","=","c","$","$"," ","t","h","e","n"," ","{","1","+","1","}">>

\* C14: the markup is the renderings of the segments, each what the segment
\* gives on its own, joined in the order of the scan with nothing between
\* them; "$$a+b=c$$ then {1+1}" gives the block markup, " then " and the
\* span of 2.
C14_IndependentConcatenation ==
  rpc \in {"returned", "done"} =>
    /\ html = Flatten([k \in DOMAIN pieces |-> pieces[k].out])
    /\ Len(pieces) = Len(segments)
    /\ \A k \in DOMAIN pieces : pieces[k].out \in RenderingsAlone(segments[k])
    /\ text = AdjacentExample /\ (\A k \in DOMAIN pieces : ~pieces[k].failed) =>
         html = renderToString(<<"a","+","b","=","c">>, TRUE)
                \o <<" ","t","h","e","n"," ">>
                \o MathSpan(<<"1","+","1">>, QInt(2))

\* C15: when the typesetter throws on a typeset segment, what is appended
\* is the content between the delimiters it was written with, "$$" for a
\* block and "$" for an inline span: the characters of the input the
\* segment stands for, none dropped.
C15_TypesetFailureFallback ==
  \A k \in DOMAIN pieces : IsTypeset(segments[k]) /\ pieces[k].failed =>
    /\ pieces[k].out =
         (IF segments[k].type = "latex-block"
          THEN <<"$", "$">> \o segments[k].content \o <<"$", "$">>
          ELSE <<"$">> \o segments[k].content \o <<"$">>)
    /\ pieces[k].out = Substring(text, starts[k], EndOfSegment(k))

\* a rendering in which the typesetter failed on a block that holds a brace
C15_Witness ==
  /\ rpc = "done"
  /\ \E k \in DOMAIN pieces :
       /\ segments[k].type = "latex-block" /\ pieces[k].failed
       /\ "{" \in Range(segments[k].content)

\* the offsets of s grow from each to the next
Increasing(s) == \A k \in 1..(Len(s) - 1) : s[k] < s[k + 1]

\* the offsets the inner loop of the latest pass was at
LatestInner(before, after) == SubSeq(after, Len(before) + 2, Len(after))

\* C16: the scan ends: a pass of the outer loop moves the offset on by at
\* least one and never past the end, by one when it pushes a character as
\* text and to the offset after the closing delimiter when a capture
\* closes; the inner loop of the pass starts after the opening delimiter
\* and moves on at every turn until it closes or the input ends; so there
\* are at most as many passes as characters.
C16_ScanTerminates ==
  /\ [](Len(segments) <= i /\ i <= Len(text))
  /\ [][rpc = "scan" /\ rpc' = "scan" =>
          /\ i' >= i + 1
          /\ segments'[Len(segments')].type = "text" => i' = i + 1
          /\ segments'[Len(segments')].type # "text" =>
               i' = i + Len(SourceSpan(segments'[Len(segments')]))
          /\ Increasing(<<i>> \o LatestInner(visits, visits'))
          /\ \A k \in DOMAIN LatestInner(visits, visits') :
               LatestInner(visits, visits')[k] < Len(text)
          /\ segments'[Len(segments')].type # "text" =>
               LatestInner(visits, visits')[Len(LatestInner(visits, visits'))]
                 = i' - (IF segments'[Len(segments')].type = "latex-block"
                         THEN 2 ELSE 1)]_vars

\* a finished scan in which one capture closed and another ran to the end
\* of the input without closing
C16_Witness ==
  /\ rpc = "process"
  /\ \E k \in DOMAIN segments : segments[k].type # "text"
  /\ \E k \in DOMAIN segments : Unterminated(starts[k])
  /\ Len(visits) > Len(text)

\* C18: the scan is one pass from left to right: no offset of the input is
\* visited by the loops more than once, unterminated captures included.
C18_SinglePass ==
  \A p \in 0..(Len(text) - 1) :
    Cardinality({k \in DOMAIN visits : visits[k] = p}) <= 1

\* whatever Math.random() returns, processText gives the same markup
DrawsIrrelevant ==
  \A r \in RandomDraws : processText(text, regexHtml.threw, r) = regexHtml.out

\* C17: processText and processTextRobust return the same markup for the
\* same text, when the typesetter behaves alike for both and nothing
\* depends on what Math.random() returns.
C17_SameMarkup ==
  /\ regexHtml.called /\ rpc \in {"returned", "done"}
  /\ \A k \in DOMAIN pieces :
       IsTypeset(segments[k]) => pieces[k].failed = regexHtml.threw
  /\ DrawsIrrelevant
  => regexHtml.out = html

\* the offsets after the opening pair at s at which two "$" follow each other
BlockCloses(s) ==
  {q \in (s + 2)..(Len(text) - 2) : At(text, q) = "$" /\ At(text, q + 1) = "$"}

Least(S) == CHOOSE x \in S : \A y \in S : x <= y

\* C19: where the scan meets "$$", only a block capture is tried: the
\* segment opened there is never an inline one; the capture closes at the
\* first "$$" after the opening pair, its content is what lies strictly
\* between the two pairs, and the scan resumes right after the closing pair.
C19_BlockCapture ==
  \A k \in DOMAIN segments : IsBlockOpen(text, starts[k]) =>
    /\ segments[k].type # "latex-inline"
    /\ BlockCloses(starts[k]) # {} =>
         /\ segments[k].type = "latex-block"
         /\ segments[k].content =
              Substring(text, starts[k] + 2, Least(BlockCloses(starts[k])))
         /\ EndOfSegment(k) = Least(BlockCloses(starts[k])) + 2
    /\ segments[k].type = "latex-block" => BlockCloses(starts[k]) # {}

\* a block that closed at the first of two "$$" and left the rest to the scan
C19_Witness ==
  /\ rpc = "process"
  /\ \E k \in DOMAIN segments :
       /\ segments[k].type = "latex-block"
       /\ Cardinality(BlockCloses(starts[k])) > 1
       /\ k < Len(segments)

\* the offsets after the opening "$" at s that hold a "$" which is not the
\* half of a "$$" pair of the capture: the pairs are counted from the start
\* of each run of "$", and the "$" is not followed by another
InlineCloses(s) ==
  {q \in (s + 1)..(Len(text) - 1) :
     /\ At(text, q) = "$" /\ At(text, q + 1) # "$"
     /\ DollarsBack(text, q, s) % 2 = 1}

\* C20: an inline capture opened at a single "$" closes at the first later
\* "$" that is not followed by another, the "$$" pairs met on the way being
\* skipped and left in the content; the content is what lies between the
\* opening and the closing "$", and the scan resumes right after the
\* closing "$".
C20_InlineCapture ==
  \A k \in DOMAIN segments : IsInlineOpen(text, starts[k]) =>
    /\ segments[k].type # "latex-block"
    /\ InlineCloses(starts[k]) # {} =>
         /\ segments[k].type = "latex-inline"
         /\ segments[k].content =
              Substring(text, starts[k] + 1, Least(InlineCloses(starts[k])))
         /\ EndOfSegment(k) = Least(InlineCloses(starts[k])) + 1
    /\ segments[k].type = "latex-inline" => InlineCloses(starts[k]) # {}

\* an inline span whose content keeps a "$$" pair
C20_Witness ==
  /\ rpc = "process"
  /\ \E k \in DOMAIN segments :
       /\ segments[k].type = "latex-inline"
       /\ \E q \in 1..(Len(segments[k].content) - 1) :
            segments[k].content[q] = "$" /\ segments[k].content[q + 1] = "$"

\* the depth of the capture opened at s once the character at q is read:
\* 1 for the opening brace, one more for each "{" and one less for each "}"
\* after it
DepthAt(s, q) ==
  1 + CountIn(text, s + 1, q, "{") - CountIn(text, s + 1, q, "}")

\* the offsets of the "}" after s that bring the depth to 0
MathCloses(s) ==
  {q \in (s + 1)..(Len(text) - 1) : At(text, q) = "}" /\ DepthAt(s, q) = 0}

\* C21: a capture opened at "{" starts at depth 1, goes one deeper at each
\* "{" and one up at each "}", and closes at the first "}" that brings the
\* depth to 0; the content of the math segment is what lies between the
\* opening brace and that brace, nested braces and "$" included.
C21_MathCapture ==
  \A k \in DOMAIN segments : IsMathOpen(text, starts[k]) =>
    /\ ~IsTypeset(segments[k])
    /\ MathCloses(starts[k]) # {} =>
         /\ segments[k].type = "math"
         /\ segments[k].content =
              Substring(text, starts[k] + 1, Least(MathCloses(starts[k])))
         /\ EndOfSegment(k) = Least(MathCloses(starts[k])) + 1
         /\ \A q \in (starts[k] + 1)..(Least(MathCloses(starts[k])) - 1) :
              DepthAt(starts[k], q) >= 1
    /\ segments[k].type = "math" => MathCloses(starts[k]) # {}

\* a math segment that holds a nested pair of braces and a "$"
C21_Witness ==
  /\ rpc = "process"
  /\ \E k \in DOMAIN segments :
       /\ segments[k].type = "math"
       /\ {"{", "}", "$"} \subseteq Range(segments[k].content)

\* the constants written in small letters
LowerConstants == {<<"p", "i">>, <<"e">>}

\* C22: PI and E are matched whatever the case of their letters:
\* evaluate("pi") is evaluate("PI") and evaluate("e") is evaluate("E").
C22_ConstantsAnyCase ==
  calls >= 1 /\ expression \in LowerConstants =>
    /\ ~result.threw
    /\ \A r \in RandomDraws :
         /\ ~evaluateMathExpression(UpperStr(expression), {}, r).threw
         /\ result.value = evaluateMathExpression(UpperStr(expression), {}, r).value

FirstDollars(t, from, width) ==
  LeastOrZero({q \in from..(Len(t) - width + 1) :
                 \A d \in 0..(width - 1) : t[q + d] = "$"})

\* Reading t from position p on, left to right: a "$$" opens a display span
\* that the next "$$" closes, any other "$" opens an inline span that the
\* next "$" on the same line closes, and outside the spans stands no brace.
RECURSIVE BracesInsideSpans(_, _)
BracesInsideSpans(t, p) ==
  IF p > Len(t) THEN TRUE
  ELSE IF t[p] = "$" /\ p < Len(t) /\ t[p + 1] = "$"
    THEN /\ FirstDollars(t, p + 3, 2) # 0
         /\ BracesInsideSpans(t, FirstDollars(t, p + 3, 2) + 2)
  ELSE IF t[p] = "$"
    THEN /\ FirstDollars(t, p + 2, 1) # 0
         /\ \A q \in (p + 1)..FirstDollars(t, p + 2, 1) : t[q] # "\n"
         /\ BracesInsideSpans(t, FirstDollars(t, p + 2, 1) + 1)
  ELSE /\ t[p] \notin {"{", "}"}
       /\ BracesInsideSpans(t, p + 1)

\* C23: when every brace of the text lies inside a $...$ or $$...$$ span,
\* evaluateTextExpressions evaluates nothing and returns the text verbatim,
\* also when the text holds several inline and display spans.
C23_SpansVerbatim ==
  parsed.called /\ BracesInsideSpans(text, 1) =>
    /\ parsed.out = text
    /\ \A k \in 1..Len(parsed.segs) : parsed.segs[k].type = "text"

\* C30: when no expression of the text evaluated successfully, the contents
\* of the segments concatenate to the text and evaluateTextExpressions
\* returns the text unchanged.
C30_UnchangedWithoutSuccess ==
  parsed.called /\ (\A k \in 1..Len(parsed.segs) : parsed.segs[k].type # "math") =>
    parsed.out = text

\* the list a call toggles, and the list it leaves alone
ToggledList(fn, p) ==
  IF fn = "markSolved" THEN p.solvedProblems ELSE p.bookmarkedProblems

OtherList(fn, p) ==
  IF fn = "markSolved" THEN p.bookmarkedProblems ELSE p.solvedProblems

\* call t went from progress before to progress after: it flipped the
\* membership of its id in its list, kept that of every other id, and left
\* the other list as it was
FlippedBy(t, after) ==
  /\ Includes(ToggledList(t.fn, after), t.id)
       = ~Includes(ToggledList(t.fn, t.before), t.id)
  /\ \A id \in SomeProblemIds \ {t.id} :
       Includes(ToggledList(t.fn, after), id)
         = Includes(ToggledList(t.fn, t.before), id)
  /\ OtherList(t.fn, after) = OtherList(t.fn, t.before)

LatestToggle == toggles[Len(toggles)]

SameToggleTwice ==
  /\ Len(toggles) = 2
  /\ toggles[1].fn = toggles[2].fn
  /\ toggles[1].id = toggles[2].id

\* C24: markSolved and toggleBookmark flip the membership of the id in their
\* list and leave the other list alone; the lists never hold a duplicate; the
\* same toggle twice with the same id restores the membership of the list;
\* and what local storage holds after a call is the progress in memory.
C24_Toggling ==
  /\ NoDuplicates(progress.solvedProblems)
  /\ NoDuplicates(progress.bookmarkedProblems)
  /\ toggles # <<>> =>
       /\ FlippedBy(LatestToggle, progress)
       /\ progressStore = Item(JSONstringify(progress))
       /\ ~JSONparse(progressStore.value).threw
       /\ JSONparse(progressStore.value).value = progress
  /\ SameToggleTwice =>
       /\ FlippedBy(toggles[1], toggles[2].before)
       /\ Range(ToggledList(toggles[1].fn, progress))
            = Range(ToggledList(toggles[1].fn, toggles[1].before))

\* the same id was taken out of a list of two and put back
C24_Witness ==
  /\ SameToggleTwice
  /\ Len(ToggledList(toggles[1].fn, toggles[1].before)) = 2
  /\ Includes(ToggledList(toggles[1].fn, toggles[1].before), toggles[1].id)
  /\ OtherList(toggles[1].fn, progress) # <<>>

\* the stored text is a parseable session that says authenticated: true and
\* is younger than 24 hours at time at
HoldsValidSession(stored, at) ==
  /\ stored.item
  /\ ~AuthParse(stored.value).threw
  /\ AuthParse(stored.value).value.k = "object"
  /\ AuthParse(stored.value).value.authenticated = "true"
  /\ ~SessionAge(at, AuthParse(stored.value).value).nan
  /\ SessionAge(at, AuthParse(stored.value).value).n < 24 * 60 * 60 * 1000

Mounting == authSeen = "unmounted" /\ authSeen' # "unmounted"

\* C25: on mount isAuthenticated becomes true exactly when local storage
\* holds a parseable session with authenticated === true that is younger
\* than 24 hours; any other entry that exists is removed and isAuthenticated
\* stays false; isLoading becomes false in every case.
C25_SessionValidity ==
  [][Mounting =>
       /\ isAuthenticated' = HoldsValidSession(authStore, now)
       /\ HoldsValidSession(authStore, now) => authStore' = authStore
       /\ ~HoldsValidSession(authStore, now) => authStore' = NoItem
       /\ isLoading' = FALSE]_vars

\* what goToPage makes of its argument
Clamped(page) == Max(1, Min(page, totalPages))

PagesInRange ==
  /\ totalPages >= 1
  /\ 1 <= safeCurrentPage /\ safeCurrentPage <= totalPages
  /\ Len(pageSlice) <= problemsPerPage
  /\ displayedProblems # <<>> => pageSlice # <<>>
  /\ ~isExamMode => paginatedProblems = pageSlice
  /\ \A k \in 1..Len(pageSlice) :
       pageSlice[k] = displayedProblems[startIndex + k]

ClampsIntoRange ==
  \A page \in PageArguments :
    /\ Clamped(page) \in 1..totalPages
    /\ page \in 1..totalPages => Clamped(page) = page
    /\ page < 1 => Clamped(page) = 1
    /\ page > totalPages => Clamped(page) = totalPages

\* C26: after any filter, search, per-page and page operations totalPages is
\* at least 1, safeCurrentPage lies in 1..totalPages, the page slice holds at
\* most problemsPerPage problems and is not empty unless the displayed list
\* is; goToPage clamps its argument into 1..totalPages, and a change of the
\* per-page size puts the page back to 1.
C26_Pagination ==
  /\ [](PagesInRange /\ ClampsIntoRange)
  /\ [][(\E page \in PageArguments : goToPage(page)) =>
          currentPage' \in 1..totalPages]_vars
  /\ [][problemsPerPage' # problemsPerPage => currentPage' = 1]_vars

\* the list shrank under a page that no longer exists
C26_Witness ==
  /\ currentPage > totalPages
  /\ displayedProblems # <<>>
  /\ searchQuery # <<>>

\* C28: while the exam mode is on and the displayed list is not empty,
\* currentProblemIndex is an index of the displayed list.
C28_IndexValid ==
  isExamMode /\ displayedProblems # <<>> =>
    0 <= currentProblemIndex /\ currentProblemIndex < Len(displayedProblems)

\* one step of the exam mode, from its start until it is ended
ExamStep == isExamMode /\ isExamMode'

\* C29: from the start of the exam mode until it is ended, the remaining
\* time stays within 0..duration, goes up only when the reset button is
\* pressed, goes down only by one and only while the timer runs, stays 0
\* once it is 0, and the step that reaches 0 stops the timer.
C29_TimerRemaining ==
  /\ [](isExamMode => timeRemaining \in 0..(durationMinutes * 60))
  /\ [][ExamStep =>
          /\ timeRemaining' > timeRemaining => TimerReset
          /\ timeRemaining' < timeRemaining =>
               timerRunning /\ timeRemaining' = timeRemaining - 1
          /\ timeRemaining = 0 => timeRemaining' = 0 \/ TimerReset
          /\ timeRemaining > 0 /\ timeRemaining' = 0 => ~timerRunning']_vars

\* ASCII letters, digits, the underscore, . ( ) + - * / ^ % , and whitespace
TitleChars ==
  Lower \cup Upper \cup Digits
    \cup {"_", ".", "(", ")", "+", "-", "*", "/", "^", "%", ",", " ", "\n", "\t"}

\* segment k was evaluated and the loop appended its span
EvaluatedSpan(k) ==
  /\ k <= Len(pieces)
  /\ segments[k].type = "math"
  /\ ~pieces[k].failed

\* the expression text of the title attribute of the span of segment k:
\* what stands between title=" and the " = " before the value
TitleExpression(k) ==
  SubSeq(pieces[k].out, 2, Len(segments[k].content) + 1)

====
